---- MODULE Spec2Model ----
(***************************************************************************)
(* A model of pdf2html-python's SimplePDFConverter                         *)
(* (src/core/simple_converter.py): glyph extraction, background erasure    *)
(* and text-layer emission.                                                *)
(*                                                                         *)
(* Units.  Page coordinates (bboxes, font sizes, gaps) are integers in     *)
(* hundredths of a point, so that every threshold of the code (x0.08,      *)
(* x0.33, x0.56, 0.1, 0.5 ...) is an exact integer comparison.  Pixel      *)
(* coordinates are integers.  zoom = dpi / 72, so a page coordinate c      *)
(* scales to the pixel coordinate c * dpi / 7200.                          *)
(***************************************************************************)
EXTENDS Integers, Sequences, FiniteSets, TLC

VARIABLES
    \* ---- render_background_without_glyphs (one page) ----
    r_pc,            \* "start" | "erasing" | "done"
    r_dpi,           \* self.dpi
    r_raster,        \* which rasterized page the pixmap holds
    bg_image,        \* the PIL image being erased: pixel -> <<r, g, b>>
    r_glyphs,        \* extractable_glyphs, the part of the list iterated so far
    filtered_glyphs, \* positions (in r_glyphs) of the glyphs appended to filtered_glyphs
    r_rects,         \* every draw.rectangle call: [idx, box, fill]
    \* ---- order comparison of two complete runs ----
    o_pc,            \* "start" | "done"
    o_in,            \* [dpi, raster, glyphs, perm]: the page and the two orderings
    o_out,           \* the two results [bg, filtered]
    \* ---- generate_text_layer (one page) ----
    t_pc,            \* "start" | "emitting" | "done"
    t_glyphs,        \* the glyphs iterated so far
    line_trackers,   \* the LineTracker entries
    text_html,       \* the nodes emitted: [span, node]
    t_calls,         \* every adjust_bbox_for_overlap call, with the entry it met
    \* ---- one call of a pure helper ----
    call_pc,         \* "idle" | "called" | "returned"
    call_args,       \* the arguments of the call
    call_result,     \* the value returned
    \* ---- extract_extractable_glyphs (one page) ----
    e_pc,            \* "idle" | "start" | "block" | "lines" | "done" | "raised"
    e_blocks,        \* text_dict["blocks"]
    e_block,         \* position of the current block
    e_lines,         \* lines_to_process of the current block
    e_line,          \* how many of them are processed
    e_median,        \* median_font_size
    extractable_glyphs,
    \* ---- convert (one document) ----
    c_pc,            \* "idle" | "open" | "fonts" | "extract" | "erase" | "text" | "write" | "done" | "raised"
    c_doc,           \* the document opened: [fonts, pages]
    fonts_css,       \* what _generate_font_face_css gave for each font so far
    page_num,        \* how many pages are complete
    html_parts,      \* the page containers appended so far
    c_log,           \* every stage call so far: [page, stage, ok]
    output_file      \* the file at output_path: Nil until it is written

eraseVars == <<r_pc, r_dpi, r_raster, bg_image, r_glyphs, filtered_glyphs, r_rects>>
orderVars == <<o_pc, o_in, o_out>>
textVars == <<t_pc, t_glyphs, line_trackers, text_html, t_calls>>
callVars == <<call_pc, call_args, call_result>>
extractVars == <<e_pc, e_blocks, e_block, e_lines, e_line, e_median,
                 extractable_glyphs>>
convertVars == <<c_pc, c_doc, fonts_css, page_num, html_parts, c_log, output_file>>
vars == <<eraseVars, orderVars, textVars, callVars, extractVars, convertVars>>

None == "None"
\* an absent bbox, list or number; a present number v is Some(v)
Nil == <<>>
Some(v) == <<v>>

(***************************************************************************)
(* Arithmetic helpers: Python's int(), max, min, abs on exact rationals.   *)
(***************************************************************************)
Max(a, b) == IF a >= b THEN a ELSE b
Min(a, b) == IF a <= b THEN a ELSE b
Abs(a) == IF a >= 0 THEN a ELSE -a

\* int(n / d) for d > 0: truncation toward zero.
Trunc(n, d) == IF n >= 0 THEN n \div d ELSE -((-n) \div d)

\* ceil(n / d) for n >= 0, d > 0.
Ceil(n, d) == (n + d - 1) \div d

\* range(a, b, s) as a set (s > 0).
RangeStep(a, b, s) == IF a < b THEN {a + k * s : k \in 0..((b - a - 1) \div s)} ELSE {}

(***************************************************************************)
(* The page and its rasterization (the pixmap is the external input).      *)
(***************************************************************************)
PageW == 12
PageH == 8
MaxGlyphs == 2

PageWidth == PageW * 100
PageHeight == PageH * 100

Dpis == {72, 150}

White == <<255, 255, 255>>
Black == <<0, 0, 0>>
Navy == <<20, 40, 120>>
Grey == <<200, 200, 200>>
Cream == <<250, 250, 250>>

\* page.get_pixmap(matrix=Matrix(zoom, zoom)): the image dimensions.
ImageWidth(dpi) == Ceil(PageWidth * dpi, 7200)
ImageHeight(dpi) == Ceil(PageHeight * dpi, 7200)

Rasters == {"blank", "art", "grey", "speck", "banner"}

\* The image the rasterizer gives for each sample page.
Rasterize(kind, dpi) ==
    LET Pixels == (0..(ImageWidth(dpi) - 1)) \X (0..(ImageHeight(dpi) - 1))
        RasterPixel(x, y) ==
            CASE kind = "blank" -> White
              [] kind = "art" -> IF (x + y) % 2 = 0 THEN Black ELSE White
              [] kind = "grey" -> Grey
              [] kind = "speck" -> IF (x + 3 * y) % 10 = 0 THEN Black ELSE White
              [] OTHER -> IF y < 8
                            THEN (IF (x + 2 * y) % 5 = 0 THEN Cream ELSE Navy)
                            ELSE (IF x % 2 = 0 THEN Grey ELSE White)
    IN  [p \in Pixels |-> RasterPixel(p[1], p[2])]

(***************************************************************************)
(* render_background_without_glyphs: the body of the erase loop.           *)
(***************************************************************************)
\* img_x0 = int(x0 * zoom) ... (lines 969-972)
ImgBox(bbox, dpi) ==
    <<Trunc(bbox[1] * dpi, 7200), Trunc(bbox[2] * dpi, 7200),
      Trunc(bbox[3] * dpi, 7200), Trunc(bbox[4] * dpi, 7200)>>

\* padding = max(2, int(2 * zoom / 72.0))
Padding(dpi) == Max(2, Trunc(2 * dpi, 72 * 72))

\* the mutant of EraseRect: the rectangle without the padding
EraseRectNoPad(bbox, dpi) ==
    LET b == ImgBox(bbox, dpi)
    IN  <<Max(0, b[1]), Max(0, b[2]),
          Min(ImageWidth(dpi), b[3]), Min(ImageHeight(dpi), b[4])>>

\* The rectangle handed to draw.rectangle (lines 1001-1006, 1013-1018).
EraseRect(bbox, dpi) ==
    LET b == ImgBox(bbox, dpi)
        padding == Padding(dpi)
    IN  <<Max(0, b[1] - padding), Max(0, b[2] - padding),
          Min(ImageWidth(dpi), b[3] + padding), Min(ImageHeight(dpi), b[4] + padding)>>

\* draw.rectangle(box, fill): both corners inclusive, clipped to the image.
DrawRectangle(img, box, fill) ==
    [p \in DOMAIN img |->
        IF box[1] <= p[1] /\ p[1] <= box[3] /\ box[2] <= p[2] /\ p[2] <= box[4]
        THEN fill ELSE img[p]]

RECURSIVE SumChannel(_, _, _)
SumChannel(img, P, ch) ==
    IF P = {} THEN 0
    ELSE LET p == CHOOSE q \in P : TRUE
         IN  img[p][ch] + SumChannel(img, P \ {p}, ch)

RECURSIVE SumSquares(_, _, _)
SumSquares(img, P, ch) ==
    IF P = {} THEN 0
    ELSE LET p == CHOOSE q \in P : TRUE
         IN  img[p][ch] * img[p][ch] + SumSquares(img, P \ {p}, ch)

\* The sample grid of _is_complex_glyph_region after clipping (lines 1034-1048).
GridSamples(dpi, box) ==
    LET x0 == Max(0, box[1])
        y0 == Max(0, box[2])
        x1 == Min(ImageWidth(dpi), box[3])
        y1 == Min(ImageHeight(dpi), box[4])
        step == Max(1, Min(x1 - x0, y1 - y0) \div 6)
    IN  RangeStep(x0, x1, step) \X RangeStep(y0, y1, step)

\* non_white: samples with (r + g + b) / 3.0 < 245
NonWhite(img, S) == {p \in S : img[p][1] + img[p][2] + img[p][3] < 735}

\* non_white_ratio > 0.2 and var > 300 over the sample set S (lines 1064-1073);
\* var is the sum over the channels of sum2/n - mean^2, here times n^2.
RatioAndVarianceHigh(img, S) ==
    LET n == Cardinality(S)
        nv(ch) == n * SumSquares(img, S, ch) - SumChannel(img, S, ch) * SumChannel(img, S, ch)
    IN  /\ 5 * Cardinality(NonWhite(img, S)) > n
        /\ nv(1) + nv(2) + nv(3) > 300 * n * n

\* the mutant of IsComplexGlyphRegion: "or" for "and" in the final test
IsComplexEither(img, dpi, box) ==
    LET x0 == Max(0, box[1])
        y0 == Max(0, box[2])
        x1 == Min(ImageWidth(dpi), box[3])
        y1 == Min(ImageHeight(dpi), box[4])
        S == GridSamples(dpi, box)
        n == Cardinality(S)
        nv(ch) == n * SumSquares(img, S, ch) - SumChannel(img, S, ch) * SumChannel(img, S, ch)
    IN  IF box[3] <= box[1] \/ box[4] <= box[2] THEN FALSE
        ELSE IF (x1 - x0) * (y1 - y0) < 64 THEN FALSE
        ELSE IF n < 12 THEN FALSE
        ELSE \/ 5 * Cardinality(NonWhite(img, S)) > n
             \/ nv(1) + nv(2) + nv(3) > 300 * n * n

\* _is_complex_glyph_region (lines 1030-1073)
IsComplexGlyphRegion(img, dpi, box) ==
    LET x0 == Max(0, box[1])
        y0 == Max(0, box[2])
        x1 == Min(ImageWidth(dpi), box[3])
        y1 == Min(ImageHeight(dpi), box[4])
        S == GridSamples(dpi, box)
    IN  IF box[3] <= box[1] \/ box[4] <= box[2] THEN FALSE
        ELSE IF (x1 - x0) * (y1 - y0) < 64 THEN FALSE
        ELSE IF Cardinality(S) < 12 THEN FALSE
        ELSE RatioAndVarianceHigh(img, S)

\* expand = max(5, int(5 * zoom / 72.0))
Expand(dpi) == Max(5, Trunc(5 * dpi, 72 * 72))

\* sample_regions (lines 879-892): above, below, left and right of the glyph,
\* each <<x0, y0, x1, y1>> with x1 and y1 exclusive
SampleRegions(b, dpi, expand) ==
    LET W == ImageWidth(dpi)
        H == ImageHeight(dpi)
    IN  << <<Max(0, b[1] - expand), Max(0, b[2] - expand * 2),
             Min(W, b[3] + expand), Max(0, b[2] - expand)>>,
           <<Max(0, b[1] - expand), Min(H, b[4] + expand),
             Min(W, b[3] + expand), Min(H, b[4] + expand * 2)>>,
           <<Max(0, b[1] - expand * 2), Max(0, b[2] - expand),
             Max(0, b[1] - expand), Min(H, b[4] + expand)>>,
           <<Min(W, b[3] + expand), Max(0, b[2] - expand),
             Min(W, b[3] + expand * 2), Min(H, b[4] + expand)>> >>

\* lines 894-921: the average of the kept samples of the regions, or None
AverageOfSamples(img, dpi, regions, text_color) ==
    LET \* the sampled pixels inside one region (lines 896-901)
        RegionSamples(rg) ==
            IF rg[1] < rg[3] /\ rg[2] < rg[4]
            THEN {p \in RangeStep(rg[1], rg[3], Max(1, (rg[3] - rg[1]) \div 3))
                        \X RangeStep(rg[2], rg[4], Max(1, (rg[4] - rg[2]) \div 3)) :
                    /\ 0 <= p[1] /\ p[1] < ImageWidth(dpi)
                    /\ 0 <= p[2] /\ p[2] < ImageHeight(dpi)}
            ELSE {}
        \* color_diff > 30: far enough from the text colour (lines 906-909)
        IsBackgroundSample(pixel) ==
            Abs(pixel[1] - text_color[1]) + Abs(pixel[2] - text_color[2])
                + Abs(pixel[3] - text_color[3]) > 30
        kept(k) == {p \in RegionSamples(regions[k]) : IsBackgroundSample(img[p])}
        n == Cardinality(kept(1)) + Cardinality(kept(2)) + Cardinality(kept(3)) + Cardinality(kept(4))
        total(ch) == SumChannel(img, kept(1), ch) + SumChannel(img, kept(2), ch)
                     + SumChannel(img, kept(3), ch) + SumChannel(img, kept(4), ch)
    IN  IF n = 0 THEN None
        ELSE <<total(1) \div n, total(2) \div n, total(3) \div n>>

\* the mutant of GetBackgroundColor: the ring is taken twice as far out
GetBackgroundColorWide(img, bbox, dpi, text_color) ==
    AverageOfSamples(img, dpi, SampleRegions(ImgBox(bbox, dpi), dpi, 2 * Expand(dpi)), text_color)

\* _get_background_color (lines 855-921): the average of the ring samples, or
\* None when no sample is left.
GetBackgroundColor(img, bbox, dpi, text_color) ==
    AverageOfSamples(img, dpi, SampleRegions(ImgBox(bbox, dpi), dpi, Expand(dpi)), text_color)

\* is_white_text = (r > 240 and g > 240 and b > 240)
IsWhiteText(color) == color[1] > 240 /\ color[2] > 240 /\ color[3] > 240

\* the mutant of FillColor: the background is sampled for every span
FillColorSampledAlways(img, g, dpi) ==
    LET bg_color == GetBackgroundColor(img, g.bbox, dpi, g.color)
    IN  IF bg_color # None THEN bg_color ELSE White

\* fill_color (lines 983-995); 'white' is (255, 255, 255)
FillColor(img, g, dpi) ==
    IF IsWhiteText(g.color)
    THEN LET bg_color == GetBackgroundColor(img, g.bbox, dpi, g.color)
         IN  IF bg_color # None THEN bg_color ELSE White
    ELSE White

\* lines 974-976: the dropcap candidate whose region is complex is skipped
IsExcludedDropcap(img, g, dpi) ==
    g.dropcap_candidate /\ IsComplexGlyphRegion(img, dpi, ImgBox(g.bbox, dpi))

\* the mutant of AppendFiltered: the skipped glyph is kept in the filtered list
AppendFilteredAlways(filtered, idx, excluded) == Append(filtered, idx)

\* filtered_glyphs.append(glyph) (lines 1009, 1021), not reached after "continue"
AppendFiltered(filtered, idx, excluded) ==
    IF excluded THEN filtered ELSE Append(filtered, idx)

\* One iteration of "for glyph in extractable_glyphs" (lines 961-1021) on the
\* state st = [bg, filtered, rects]; idx is the glyph's position in the list.
EraseGlyph(st, g, idx, dpi) ==
    LET excluded == IsExcludedDropcap(st.bg, g, dpi)
        box == EraseRect(g.bbox, dpi)
        fill == FillColor(st.bg, g, dpi)
    IN  [bg |-> IF excluded THEN st.bg ELSE DrawRectangle(st.bg, box, fill),
         filtered |-> AppendFiltered(st.filtered, idx, excluded),
         rects |-> IF excluded THEN st.rects
                   ELSE Append(st.rects, [idx |-> idx, box |-> box, fill |-> fill])]

(***************************************************************************)
(* The glyphs a page may hand to the erase stage.                          *)
(***************************************************************************)
Glyph(bbox, color, dropcap) ==
    [bbox |-> bbox, color |-> color, dropcap_candidate |-> dropcap]

EraseCatalogue ==
    { Glyph(<<100, 100, 500, 500>>, Black, TRUE),
      Glyph(<<100, 100, 500, 500>>, Black, FALSE),
      Glyph(<<100, 100, 300, 300>>, Black, TRUE),
      Glyph(<<600, 300, 900, 500>>, Cream, FALSE),
      \* a span whose colour is bright in two channels only
      Glyph(<<0, 0, 300, 200>>, <<255, 250, 200>>, FALSE),
      Glyph(<<-100, 500, 400, PageHeight + 100>>, Black, TRUE),
      Glyph(<<PageWidth - 250, 50, PageWidth + 50, 350>>, White, FALSE) }

(***************************************************************************)
(* SpecErase: one call of render_background_without_glyphs.                *)
(***************************************************************************)
\* the variables of every call that is not under way hold nothing
IdleExcept(own) ==
    /\ \/ "erase" \in own
       \/ /\ r_pc = "idle" /\ r_dpi = 0 /\ r_raster = None /\ bg_image = <<>>
          /\ r_glyphs = <<>> /\ filtered_glyphs = <<>> /\ r_rects = <<>>
    /\ "order" \in own \/ (o_pc = "idle" /\ o_in = None /\ o_out = None)
    /\ \/ "extract" \in own
       \/ /\ e_pc = "idle" /\ e_blocks = <<>> /\ e_block = 0 /\ e_lines = <<>>
          /\ e_line = 0 /\ e_median = 0 /\ extractable_glyphs = <<>>
    /\ "call" \in own \/ (call_pc = "idle" /\ call_args = Nil /\ call_result = Nil)
    /\ \/ "text" \in own
       \/ /\ t_pc = "idle" /\ t_glyphs = <<>> /\ line_trackers = <<>>
          /\ text_html = <<>> /\ t_calls = <<>>
    /\ \/ "convert" \in own
       \/ /\ c_pc = "idle" /\ c_doc = Nil /\ fonts_css = <<>> /\ page_num = 0
          /\ html_parts = <<>> /\ c_log = <<>> /\ output_file = Nil

InitErase ==
    /\ r_pc = "start"
    /\ r_dpi \in Dpis
    /\ r_raster \in Rasters
    /\ bg_image = <<>>
    /\ r_glyphs = <<>>
    /\ filtered_glyphs = <<>>
    /\ r_rects = <<>>
    /\ IdleExcept({"erase"})

\* lines 946-959: rasterize the page and open the image
RenderPage ==
    /\ r_pc = "start"
    /\ bg_image' = Rasterize(r_raster, r_dpi)
    /\ r_pc' = "erasing"
    /\ UNCHANGED <<r_dpi, r_raster, r_glyphs, filtered_glyphs, r_rects, orderVars, textVars, callVars, extractVars, convertVars>>

\* lines 961-1021: the next glyph of the list
EraseNextGlyph ==
    /\ r_pc = "erasing"
    /\ Len(r_glyphs) < MaxGlyphs
    /\ \E g \in EraseCatalogue :
        LET idx == Len(r_glyphs) + 1
            nxt == EraseGlyph([bg |-> bg_image, filtered |-> filtered_glyphs,
                               rects |-> r_rects], g, idx, r_dpi)
        IN  /\ r_glyphs' = Append(r_glyphs, g)
            /\ bg_image' = nxt.bg
            /\ filtered_glyphs' = nxt.filtered
            /\ r_rects' = nxt.rects
    /\ UNCHANGED <<r_pc, r_dpi, r_raster, orderVars, textVars, callVars, extractVars, convertVars>>

\* lines 1023-1028: the list is exhausted; encode and return
FinishRender ==
    /\ r_pc = "erasing"
    /\ r_pc' = "done"
    /\ UNCHANGED <<r_dpi, r_raster, bg_image, r_glyphs, filtered_glyphs, r_rects, orderVars, textVars, callVars, extractVars, convertVars>>

(***************************************************************************)
(* SpecOrder: render_background_without_glyphs run to completion on two    *)
(* orderings of the same glyphs of one page.                               *)
(***************************************************************************)
MaxOrderLen == 2

OrderCatalogue ==
    { Glyph(<<100, 100, 500, 500>>, Black, TRUE),
      Glyph(<<600, 300, 900, 500>>, Cream, FALSE),
      Glyph(<<0, 0, 100, 100>>, Cream, FALSE),
      Glyph(<<800, 500, 1000, 700>>, Black, FALSE) }

\* render_background_without_glyphs (lines 923-1028): the loop of lines
\* 956-1021 over the whole list
RenderBackgroundWithoutGlyphs(raster, dpi, glyphs) ==
    LET RECURSIVE RenderFrom(_, _)
        RenderFrom(st, idx) ==
            IF idx > Len(glyphs) THEN st
            ELSE RenderFrom(EraseGlyph(st, glyphs[idx], idx, dpi), idx + 1)
    IN  RenderFrom([bg |-> Rasterize(raster, dpi), filtered |-> <<>>, rects |-> <<>>], 1)

InitOrder ==
    /\ o_pc = "start"
    /\ \E dpi \in Dpis, raster \in Rasters, n \in 2..MaxOrderLen :
        \E glyphs \in {f \in [1..n -> OrderCatalogue] : \A i, j \in 1..n : f[i] = f[j] => i = j},
           perm \in {f \in [1..n -> 1..n] : \A i, j \in 1..n : f[i] = f[j] => i = j} :
            o_in = [dpi |-> dpi, raster |-> raster, glyphs |-> glyphs, perm |-> perm]
    /\ o_out = None
    /\ IdleExcept({"order"})

\* The page is rendered once with the glyphs in list order and once with the
\* same glyphs in the order perm.
RenderBothOrders ==
    /\ o_pc = "start"
    /\ LET reordered == [i \in 1..Len(o_in.glyphs) |-> o_in.glyphs[o_in.perm[i]]]
           a == RenderBackgroundWithoutGlyphs(o_in.raster, o_in.dpi, o_in.glyphs)
           b == RenderBackgroundWithoutGlyphs(o_in.raster, o_in.dpi, reordered)
       IN  o_out' = [bg1 |-> a.bg,
                     filtered1 |-> {a.filtered[k] : k \in 1..Len(a.filtered)},
                     bg2 |-> b.bg,
                     filtered2 |-> {o_in.perm[b.filtered[k]] : k \in 1..Len(b.filtered)}]
    /\ o_pc' = "done"
    /\ UNCHANGED <<o_in, eraseVars, textVars, callVars, extractVars, convertVars>>

SpecOrder == InitOrder /\ [][RenderBothOrders]_vars

(***************************************************************************)
(* Text.  A str is a sequence of one-character strings; "U4E2D" and        *)
(* "U6587" stand for one CJK ideograph each, "U3042" for one hiragana and  *)
(* "U00E9" for one Latin-1 lowercase letter.                               *)
(***************************************************************************)
NBSP_TOKEN == <<"_", "_", "N", "B", "S", "P", "_", "_">>

UpperLetters == {"A", "B", "C", "D", "E", "F", "G", "H", "I", "J", "K", "L", "M",
                 "N", "O", "P", "Q", "R", "S", "T", "U", "V", "W", "X", "Y", "Z"}
LowerLetters == {"a", "b", "c", "d", "e", "f", "g", "h", "i", "j", "k", "l", "m",
                 "n", "o", "p", "q", "r", "s", "t", "u", "v", "w", "x", "y", "z"}
\* ch.isspace()
IsSpace(ch) == ch \in {" ", "\t", "\n"}
\* ord(ch) >= 0x2E80
IsCjkCode(ch) == ch \in {"U4E2D", "U6587", "U3042"}
\* ord(ch) > 0x7F
IsNonAscii(ch) == ch \in {"U4E2D", "U6587", "U3042", "U00E9"}

\* text.replace(old, new), old non-empty: leftmost non-overlapping occurrences
RECURSIVE Replace(_, _, _)
Replace(s, old, new) ==
    IF s = <<>> THEN <<>>
    ELSE IF Len(s) >= Len(old) /\ SubSeq(s, 1, Len(old)) = old
         THEN new \o Replace(SubSeq(s, Len(old) + 1, Len(s)), old, new)
    ELSE <<Head(s)>> \o Replace(Tail(s), old, new)

\* text.replace(NBSP_TOKEN, " ")
Normalized(text) == Replace(text, NBSP_TOKEN, <<" ">>)

\* text.strip(): without the whitespace at either end
Strip(s) ==
    LET Inner == {i \in 1..Len(s) : ~IsSpace(s[i])}
    IN  IF Inner = {} THEN <<>>
        ELSE SubSeq(s, CHOOSE i \in Inner : \A j \in Inner : i <= j,
                       CHOOSE i \in Inner : \A j \in Inner : i >= j)

\* text.split(): the maximal runs of non-whitespace characters
Split(s) ==
    LET RECURSIVE SplitFrom(_, _)
        SplitFrom(rest, cur) ==
            IF rest = <<>> THEN (IF cur = <<>> THEN <<>> ELSE <<cur>>)
            ELSE IF IsSpace(Head(rest))
                 THEN (IF cur = <<>> THEN <<>> ELSE <<cur>>) \o SplitFrom(Tail(rest), <<>>)
                 ELSE SplitFrom(Tail(rest), Append(cur, Head(rest)))
    IN  SplitFrom(s, <<>>)

\* re.fullmatch(r"[A-Za-z]", t)
IsSingleLetter(t) == Len(t) = 1 /\ t[1] \in UpperLetters \cup LowerLetters

\* text.count(ch)
CountChar(s, ch) == Cardinality({i \in 1..Len(s) : s[i] = ch})

(***************************************************************************)
(* generate_text_layer and its LineTracker.                                *)
(***************************************************************************)
\* the mutant of SplitSpanToCharSegments: space characters get no segment
SplitSpanToCharSegmentsNoSpaces(chars) ==
    IF chars = Nil THEN <<>>
    ELSE LET kept == SelectSeq(chars, LAMBDA ch : ch.c \notin {"", " "} /\ ch.bbox # Nil)
         IN  [k \in 1..Len(kept) |-> [text |-> <<kept[k].c>>, bbox |-> kept[k].bbox]]

\* _split_span_to_char_segments (lines 453-466); chars may be None
SplitSpanToCharSegments(chars) ==
    LET RECURSIVE CharSegmentsOf(_)
        CharSegmentsOf(rest) ==
            IF rest = <<>> THEN <<>>
            ELSE LET ch == Head(rest)
                 IN  (IF ch.c = "" \/ ch.bbox = Nil THEN <<>>
                      ELSE << [text |-> <<ch.c>>, bbox |-> ch.bbox] >>)
                     \o CharSegmentsOf(Tail(rest))
    IN  IF chars = Nil THEN <<>> ELSE CharSegmentsOf(chars)

\* _contains_cjk: re.search(r"[\u4e00-\u9fff]", text)
ContainsCjk(text) == \E i \in 1..Len(text) : text[i] \in {"U4E2D", "U6587"}

\* the while loop of _split_span_by_double_spaces (lines 481-509); i and k are
\* the 1-based positions in the text and in chars
RECURSIVE SplitLoop(_, _, _, _, _, _, _)
SplitLoop(s, chars, i, k, cur_chars, cur_text, segments) ==
    IF i > Len(s)
    THEN (IF cur_chars # <<>>
          THEN Append(segments, [text |-> cur_text, chars |-> cur_chars])
          ELSE segments)
    ELSE IF s[i] = " "
    THEN LET \* the end of the run of spaces that starts at i (exclusive)
             j == CHOOSE e \in (i + 1)..(Len(s) + 1) :
                     /\ \A m \in i..(e - 1) : s[m] = " "
                     /\ (e > Len(s) \/ s[e] # " ")
             \* while char_index < len(chars) and chars[char_index]["c"] == " "
             skipped == CHOOSE e \in k..(Len(chars) + 1) :
                           /\ \A m \in k..(e - 1) : chars[m].c = " "
                           /\ (e > Len(chars) \/ chars[e].c # " ")
         IN  IF j - i >= 2
             THEN SplitLoop(s, chars, j, skipped, <<>>,
                            IF cur_chars # <<>> THEN <<>> ELSE cur_text,
                            IF cur_chars # <<>>
                            THEN Append(segments, [text |-> cur_text, chars |-> cur_chars])
                            ELSE segments)
             ELSE IF k <= Len(chars) /\ chars[k].c = " "
                  THEN SplitLoop(s, chars, j, k + 1, Append(cur_chars, chars[k]),
                                 Append(cur_text, " "), segments)
                  ELSE SplitLoop(s, chars, j, k, cur_chars, Append(cur_text, " "), segments)
    ELSE IF k <= Len(chars)
         THEN SplitLoop(s, chars, i + 1, k + 1, Append(cur_chars, chars[k]),
                        Append(cur_text, s[i]), segments)
         ELSE SplitLoop(s, chars, i + 1, k, cur_chars, Append(cur_text, s[i]), segments)

\* _split_span_by_double_spaces (lines 468-516)
SplitSpanByDoubleSpaces(text, chars) ==
    LET normalized == Normalized(text)
        \* "  " in normalized
        HasDoubleSpace ==
            \E i \in 1..(Len(normalized) - 1) :
                normalized[i] = " " /\ normalized[i + 1] = " "
        \* segments = [s for s in segments if s["text"].strip()]
        KeepNonBlank(segments) ==
            SelectSeq(segments, LAMBDA seg : Strip(seg.text) # <<>>)
    IN  IF ~HasDoubleSpace THEN <<>>
        ELSE IF ~ContainsCjk(normalized) THEN <<>>
        ELSE IF chars = Nil \/ chars = <<>> THEN <<>>
        ELSE KeepNonBlank(SplitLoop(normalized, chars, 1, 1, <<>>, <<>>, <<>>))

SetMin(S) == CHOOSE x \in S : \A y \in S : x <= y
SetMax(S) == CHOOSE x \in S : \A y \in S : x >= y

\* _segment_bbox_from_chars (lines 425-442)
SegmentBBoxFromChars(chars, default_bbox) ==
    LET withBox == {i \in 1..Len(chars) : chars[i].bbox # Nil}
    IN  IF chars = <<>> \/ withBox = {} THEN default_bbox
        ELSE <<SetMin({chars[i].bbox[1] : i \in withBox}),
               SetMin({chars[i].bbox[2] : i \in withBox}),
               SetMax({chars[i].bbox[3] : i \in withBox}),
               SetMax({chars[i].bbox[4] : i \in withBox})>>

\* _get_line_tracker (lines 1095-1111): the tracker list after the call and the
\* 1-based position of the entry returned (0 for None).  center_y is kept
\* doubled (y0 + y1), so the test |dy| <= tol reads |2 dy| <= 2 tol.
GetLineTracker(trackers, line_bbox, fallback_bbox, font_size) ==
    LET use == IF line_bbox # Nil THEN line_bbox ELSE fallback_bbox
    IN  IF use = Nil THEN [trackers |-> trackers, at |-> 0]
        ELSE LET center_y == use[2] + use[4]
                 tolerance == Max(100, (font_size * 60) \div 100)
                 hits == {k \in 1..Len(trackers) :
                            Abs(center_y - trackers[k].center_y)
                                <= 2 * Max(tolerance, trackers[k].tolerance)}
             IN  IF hits # {} THEN [trackers |-> trackers, at |-> SetMin(hits)]
                 ELSE [trackers |-> Append(trackers,
                                      [center_y |-> center_y, tolerance |-> tolerance,
                                       right_edge |-> Nil, last_type |-> None]),
                       at |-> Len(trackers) + 1]

\* _text_script_type (lines 1113-1130)
TextScriptType(text) ==
    LET \* code <= 0x007F and not ch.isspace()
        has_ascii == \E i \in 1..Len(text) : ~IsNonAscii(text[i]) /\ ~IsSpace(text[i])
        \* code >= 0x2E80
        has_cjk == \E i \in 1..Len(text) : IsCjkCode(text[i])
    IN  IF text = <<>> THEN None
        ELSE IF has_ascii /\ has_cjk THEN "mixed"
        ELSE IF has_ascii THEN "ascii"
        ELSE IF has_cjk THEN "cjk"
        ELSE None

\* _estimate_text_width (lines 1132-1144): font_size x 0.33 per space, x 0.56
\* per other ASCII character, x 1.0 per non-ASCII character (font sizes are
\* whole points, so the products are whole hundredths)
EstimateTextWidth(text, font_size) ==
    LET spaces == CountChar(text, " ")
        wide == Cardinality({i \in 1..Len(text) : IsNonAscii(text[i])})
        narrow == Len(text) - spaces - wide
    IN  (font_size * (33 * spaces + 56 * narrow + 100 * wide)) \div 100

\* the mutant of UpdateLineRightEdge: the right edge is the bbox's own x1
UpdateLineRightEdgeByBBox(line, run_bbox, text, font_size) ==
    LET current_type == TextScriptType(text)
    IN  [line EXCEPT !.right_edge =
                        Some(IF line.right_edge = Nil \/ line.right_edge = Some(0)
                             THEN run_bbox[3] ELSE Max(line.right_edge[1], run_bbox[3])),
                     !.last_type = IF current_type # None THEN current_type ELSE line.last_type]

\* _update_line_right_edge (lines 1159-1168); "right_edge or x" also replaces a
\* right edge of 0
UpdateLineRightEdge(line, run_bbox, text, font_size) ==
    LET run_width == run_bbox[3] - run_bbox[1]
        estimated == EstimateTextWidth(text, font_size)
        right_by_estimate == run_bbox[1] + Max(run_width, estimated)
        current_type == TextScriptType(text)
    IN  [line EXCEPT !.right_edge =
                        Some(Max(IF line.right_edge = Nil \/ line.right_edge = Some(0)
                                 THEN right_by_estimate ELSE line.right_edge[1],
                                 right_by_estimate)),
                     !.last_type = IF current_type # None THEN current_type ELSE line.last_type]

\* the mutant of AdjustBBoxForOverlap: a run is shifted whatever its script and
\* the script recorded on the line
AdjustBBoxForOverlapAnyScript(trackers, run_bbox, line_bbox, align_center, font_size, text) ==
    IF run_bbox = Nil \/ align_center THEN [bbox |-> run_bbox, trackers |-> trackers]
    ELSE LET got == GetLineTracker(trackers, line_bbox, run_bbox, font_size)
             line == got.trackers[got.at]
             right_edge == line.right_edge
             current_type == TextScriptType(text)
             last_type == line.last_type
             allow_shift == TRUE
             \* min_gap = max(0.5, (font_size or 0) * 0.08)
             min_gap == Max(50, (font_size * 8) \div 100)
             shift == right_edge[1] - run_bbox[1] + min_gap
             shifted == IF allow_shift /\ right_edge # Nil /\ run_bbox[1] <= right_edge[1] + 10
                        THEN <<run_bbox[1] + shift, run_bbox[2], run_bbox[3] + shift, run_bbox[4]>>
                        ELSE run_bbox
         IN  [bbox |-> shifted,
              trackers |-> [got.trackers EXCEPT
                              ![got.at] = UpdateLineRightEdge(line, shifted, text, font_size)]]

\* adjust_bbox_for_overlap (lines 1170-1189): the bbox returned and the trackers
AdjustBBoxForOverlap(trackers, run_bbox, line_bbox, align_center, font_size, text) ==
    IF run_bbox = Nil \/ align_center THEN [bbox |-> run_bbox, trackers |-> trackers]
    ELSE LET got == GetLineTracker(trackers, line_bbox, run_bbox, font_size)
             line == got.trackers[got.at]
             right_edge == line.right_edge
             current_type == TextScriptType(text)
             last_type == line.last_type
             allow_shift == /\ last_type \in {"ascii", "cjk"}
                            /\ current_type \in {"ascii", "cjk"}
                            /\ last_type # current_type
             \* min_gap = max(0.5, (font_size or 0) * 0.08)
             min_gap == Max(50, (font_size * 8) \div 100)
             shift == right_edge[1] - run_bbox[1] + min_gap
             shifted == IF allow_shift /\ right_edge # Nil /\ run_bbox[1] <= right_edge[1] + 10
                        THEN <<run_bbox[1] + shift, run_bbox[2], run_bbox[3] + shift, run_bbox[4]>>
                        ELSE run_bbox
         IN  [bbox |-> shifted,
              trackers |-> [got.trackers EXCEPT
                              ![got.at] = UpdateLineRightEdge(line, shifted, text, font_size)]]

\* _build_text_span_html (lines 518-602): the node as a record of what the
\* markup states
BuildTextSpanHtml(text, bbox, font_size, font_name, color, apply_uppercase, apply_small_caps, letter_spacing, word_spacing, align_center, block_bbox, page_width, page_rect_width) ==
    LET tokens == Split(Strip(Normalized(text)))
        is_spaced_letters == /\ Len(tokens) >= 4
                             /\ \A i \in 1..Len(tokens) : IsSingleLetter(tokens[i])
        use_block_width ==
            /\ block_bbox # Nil /\ page_width # 0
            /\ block_bbox[3] - block_bbox[1] > 0
            /\ 10 * (block_bbox[3] - block_bbox[1]) < 7 * page_width
            /\ 100 * block_bbox[1] > 5 * page_width
            /\ 100 * block_bbox[3] < 95 * page_width
    IN  [text |-> text,
         left |-> IF align_center THEN (IF use_block_width THEN block_bbox[1] ELSE 0)
                  ELSE bbox[1],
         top |-> bbox[2],
         width |-> IF align_center
                   THEN Some(IF use_block_width THEN block_bbox[3] - block_bbox[1]
                             ELSE page_rect_width)
                   ELSE Nil,
         text_align_center |-> align_center,
         font_size |-> font_size,
         font_family |-> font_name,
         fallback |-> IF font_name \in {<<"EBGaramond12-Regular">>, <<"NotoSerifCJK">>} THEN "serif" ELSE "sans-serif",
         color |-> color,
         uppercase |-> apply_uppercase,
         small_caps |-> apply_small_caps,
         letter_spacing |-> letter_spacing,
         word_spacing |-> word_spacing,
         data_letter_spaced |-> is_spaced_letters /\ ~align_center /\ bbox[3] - bbox[1] > 0]

\* One adjust_bbox_for_overlap call on the state st = [trackers, html, calls]:
\* the bbox returned, the trackers, and the call as it met the tracker entry.
AdjustRun(st, idx, run_bbox, line_bbox, align_center, font_size, text) ==
    LET met == IF run_bbox = Nil \/ align_center THEN [trackers |-> st.trackers, at |-> 0]
               ELSE GetLineTracker(st.trackers, line_bbox, run_bbox, font_size)
        res == AdjustBBoxForOverlap(st.trackers, run_bbox, line_bbox, align_center,
                                    font_size, text)
    IN  [bbox |-> res.bbox,
         trackers |-> res.trackers,
         calls |-> Append(st.calls,
                     [span |-> idx, text |-> text, font_size |-> font_size,
                      centered |-> align_center, at |-> met.at,
                      right_edge |-> IF met.at = 0 THEN Nil
                                     ELSE met.trackers[met.at].right_edge,
                      last_type |-> IF met.at = 0 THEN None
                                    ELSE met.trackers[met.at].last_type,
                      run_bbox |-> run_bbox, bbox |-> res.bbox])]

\* lines 1210-1233: one node per character segment, the tracker untouched
RECURSIVE EmitCharSegments(_, _, _, _)
EmitCharSegments(st, g, idx, segments) ==
    IF segments = <<>> THEN st
    ELSE LET segment == Head(segments)
             seg_text == IF segment.text = <<" ">> THEN NBSP_TOKEN ELSE segment.text
             node == BuildTextSpanHtml(seg_text, segment.bbox, g.font_size, g.font_name,
                                       g.color, g.force_uppercase, g.apply_small_caps,
                                       Nil, Nil, FALSE, g.block_bbox, g.page_width,
                                       g.page_width)
         IN  EmitCharSegments([st EXCEPT !.html = Append(@, [span |-> idx, node |-> node])],
                              g, idx, Tail(segments))

\* lines 1246-1277: one node per double-space segment
RECURSIVE EmitSplitSegments(_, _, _, _)
EmitSplitSegments(st, g, idx, segments) ==
    IF segments = <<>> THEN st
    ELSE LET segment == Head(segments)
             adj == AdjustRun(st, idx, SegmentBBoxFromChars(segment.chars, g.bbox),
                              g.line_bbox, FALSE, g.font_size, segment.text)
             node == BuildTextSpanHtml(segment.text, adj.bbox, g.font_size, g.font_name,
                                       g.color, g.force_uppercase, g.apply_small_caps,
                                       g.letter_spacing, g.word_spacing, FALSE,
                                       g.block_bbox, g.page_width, g.page_width)
         IN  EmitSplitSegments([trackers |-> adj.trackers,
                                html |-> Append(st.html, [span |-> idx, node |-> node]),
                                calls |-> adj.calls],
                               g, idx, Tail(segments))

\* One iteration of "for glyph in extractable_glyphs" (lines 1191-1302).
EmitGlyph(st, g, idx) ==
    LET char_segments == SplitSpanToCharSegments(g.chars)
        split_segments == IF g.align_center THEN <<>>
                          ELSE SplitSpanByDoubleSpaces(g.text, g.chars)
    IN  IF char_segments # <<>> THEN EmitCharSegments(st, g, idx, char_segments)
        ELSE IF split_segments # <<>> THEN EmitSplitSegments(st, g, idx, split_segments)
        ELSE LET adj == AdjustRun(st, idx, g.bbox, g.line_bbox, g.align_center,
                                  g.font_size, g.text)
                 node == BuildTextSpanHtml(g.text, adj.bbox, g.font_size, g.font_name,
                                           g.color, g.force_uppercase, g.apply_small_caps,
                                           g.letter_spacing, g.word_spacing, g.align_center,
                                           g.block_bbox, g.page_width, g.page_width)
             IN  [trackers |-> adj.trackers,
                  html |-> Append(st.html, [span |-> idx, node |-> node]),
                  calls |-> adj.calls]

\* generate_text_layer (lines 1075-1304)
RECURSIVE EmitFrom(_, _, _)
EmitFrom(st, glyphs, idx) ==
    IF idx > Len(glyphs) THEN st
    ELSE EmitFrom(EmitGlyph(st, glyphs[idx], idx), glyphs, idx + 1)
GenerateTextLayer(glyphs) ==
    EmitFrom([trackers |-> <<>>, html |-> <<>>, calls |-> <<>>], glyphs, 1)

(***************************************************************************)
(* The spans a page may hand to the text layer.  The page is 600 pt wide;  *)
(* two visual lines, at y = 100 pt and at y = 300 pt.                      *)
(***************************************************************************)
TextPageWidth == 60000

Span(text, bbox, font_size, chars, align_center) ==
    [text |-> text, bbox |-> bbox, font_size |-> font_size, font_name |-> <<"Helvetica">>,
     color |-> Black, chars |-> chars, force_uppercase |-> FALSE,
     apply_small_caps |-> FALSE, letter_spacing |-> Nil, word_spacing |-> Nil,
     align_center |-> align_center, line_bbox |-> bbox,
     block_bbox |-> <<5000, bbox[2], 55000, bbox[4]>>, page_width |-> TextPageWidth]

Char(c, bbox) == [c |-> c, bbox |-> bbox]

TextCatalogue ==
    { \* ASCII, estimated width 5 x 6.72 = 33.6 pt wider than the 30 pt bbox
      Span(<<"H", "e", "l", "l", "o">>, <<7000, 10000, 10000, 11200>>, 1200, Nil, FALSE),
      \* ASCII ending at x = 100 pt, bbox wider than the estimate
      Span(<<"H", "i">>, <<8000, 10000, 10000, 11200>>, 1200, Nil, FALSE),
      \* CJK starting at x = 95 pt on the same line
      Span(<<"U4E2D", "U6587">>, <<9500, 10000, 12000, 11200>>, 1200, Nil, FALSE),
      \* CJK far to the right on the same line
      Span(<<"U4E2D">>, <<30000, 10050, 31200, 11250>>, 1200, Nil, FALSE),
      \* CJK starting 0.05 pt and 8 pt right of x = 100 pt on the same line
      Span(<<"U6587">>, <<10005, 10000, 11205, 11200>>, 1200, Nil, FALSE),
      Span(<<"U3042">>, <<10800, 10000, 12000, 11200>>, 1200, Nil, FALSE),
      \* runs left of the page edge on the same line: ASCII that reaches
      \* x = 0 exactly, ASCII that reaches x = -23.28 pt, CJK from x = -5 pt
      Span(<<"i">>, <<-1000, 10000, 0, 11200>>, 1200, Nil, FALSE),
      Span(<<"j">>, <<-3000, 10000, -2500, 11200>>, 1200, Nil, FALSE),
      Span(<<"U3042">>, <<-500, 10000, 700, 11200>>, 1200, Nil, FALSE),
      \* ASCII and CJK on the second line
      Span(<<"o", "k">>, <<9000, 30000, 11000, 31200>>, 1200, Nil, FALSE),
      Span(<<"U6587">>, <<10000, 30000, 11200, 31200>>, 2400, Nil, FALSE),
      \* a centered title on the first line
      Span(<<"T", "o", "p">>, <<28000, 10000, 32000, 11200>>, 1200, Nil, TRUE),
      \* mixed and unclassified runs
      Span(<<"a", "U4E2D">>, <<9800, 10000, 12000, 11200>>, 1200, Nil, FALSE),
      Span(<<"U00E9">>, <<9900, 10000, 10500, 11200>>, 1200, Nil, FALSE),
      \* a span with per-character geometry, a CJK character and two spaces
      \* among its characters, one character without text and one without bbox
      Span(<<"U4E2D", " ", " ", "b">>, <<9000, 10000, 11000, 11200>>, 1200,
           <<Char("U4E2D", <<9000, 10000, 9600, 11200>>),
             Char(" ", <<9600, 10000, 9750, 11200>>), Char(" ", <<9750, 10000, 9900, 11200>>),
             Char("", <<9900, 10000, 9900, 11200>>), Char("x", Nil),
             Char("b", <<9900, 10000, 11000, 11200>>)>>, FALSE),
      \* a CJK span with a double space that carries no characters
      Span(<<"U4E2D", " ", " ", "U6587">>, <<9000, 10000, 14000, 11200>>, 1200, Nil, FALSE),
      \* a CJK span with a double space whose characters carry no bbox
      Span(<<"U4E2D", " ", " ", "U6587">>, <<9000, 10000, 14000, 11200>>, 1200,
           <<Char("U4E2D", Nil), Char(" ", Nil), Char(" ", Nil), Char("U6587", Nil)>>,
           FALSE) }

(***************************************************************************)
(* SpecText: one call of generate_text_layer.                              *)
(***************************************************************************)
MaxSpans == 3

InitText ==
    /\ t_pc = "start"
    /\ t_glyphs = <<>>
    /\ line_trackers = <<>>
    /\ text_html = <<>>
    /\ t_calls = <<>>
    /\ IdleExcept({"text"})

\* the mutant of BeginTextLayer: the tracker list outlives the call
BeginTextLayerKeepingTrackers ==
    /\ t_pc = "start"
    /\ t_pc' = "emitting"
    /\ text_html' = <<>>
    /\ UNCHANGED <<t_glyphs, line_trackers, t_calls, eraseVars, orderVars, callVars, extractVars, convertVars>>

\* lines 1091-1093: the fresh tracker list and node list of the call
BeginTextLayer ==
    /\ t_pc = "start"
    /\ t_pc' = "emitting"
    /\ line_trackers' = <<>>
    /\ text_html' = <<>>
    /\ UNCHANGED <<t_glyphs, t_calls, eraseVars, orderVars, callVars, extractVars, convertVars>>

\* lines 1191-1302: the next glyph of the list
EmitNextGlyph ==
    /\ t_pc = "emitting"
    /\ Len(t_glyphs) < MaxSpans
    /\ \E g \in TextCatalogue :
        LET nxt == EmitGlyph([trackers |-> line_trackers, html |-> text_html,
                              calls |-> t_calls], g, Len(t_glyphs) + 1)
        IN  /\ t_glyphs' = Append(t_glyphs, g)
            /\ line_trackers' = nxt.trackers
            /\ text_html' = nxt.html
            /\ t_calls' = nxt.calls
    /\ UNCHANGED <<t_pc, eraseVars, orderVars, callVars, extractVars, convertVars>>

\* line 1304: return text_html
FinishTextLayer ==
    /\ t_pc = "emitting"
    /\ t_pc' = "done"
    /\ UNCHANGED <<t_glyphs, line_trackers, text_html, t_calls, eraseVars, orderVars, callVars, extractVars, convertVars>>

SpecText == InitText /\ [][BeginTextLayer \/ EmitNextGlyph \/ FinishTextLayer]_vars

(***************************************************************************)
(* SpecErase, continued: convert hands the filtered list to the text layer.*)
(***************************************************************************)
\* convert, line 1723: text_html = generate_text_layer(page, filtered_glyphs)
TextLayerOfFiltered ==
    /\ r_pc = "done"
    /\ r_pc' = "layered"
    /\ LET \* the span behind an erase-stage glyph, as the text layer reads it
           PageSpan(g) == [Span(<<"A">>, g.bbox, 1200, Nil, FALSE) EXCEPT !.color = g.color]
           layer == GenerateTextLayer([k \in 1..Len(filtered_glyphs) |->
                                        PageSpan(r_glyphs[filtered_glyphs[k]])])
       IN  /\ text_html' = layer.html
           /\ line_trackers' = layer.trackers
           /\ t_calls' = layer.calls
    /\ UNCHANGED <<r_dpi, r_raster, bg_image, r_glyphs, filtered_glyphs, r_rects,
                   t_pc, t_glyphs, orderVars, callVars, extractVars, convertVars>>

SpecErase == InitErase /\ [][RenderPage \/ EraseNextGlyph \/ FinishRender \/ TextLayerOfFiltered]_vars

(***************************************************************************)
(* _span_caps_flags, and SpecCaps: one call of it on a span text.          *)
(***************************************************************************)
\* re.sub(r"\s+", "", s)
RemoveSpaces(s) == SelectSeq(s, LAMBDA ch : ~IsSpace(ch))

\* re.fullmatch(r"[ivxlcdm]+\.", s)
IsLowerRomanWithDot(s) ==
    /\ Len(s) >= 2
    /\ s[Len(s)] = "."
    /\ \A i \in 1..(Len(s) - 1) : s[i] \in {"i", "v", "x", "l", "c", "d", "m"}

\* the mutant of LetterTokens: every token counts as a letter
AllTokens(tokens) == tokens

\* [t for t in tokens if re.fullmatch(r"[A-Za-z]", t)]
LetterTokens(tokens) == SelectSeq(tokens, IsSingleLetter)

\* the mutant of SpanCapsFlags: any lowercase letter of the text counts
SpanCapsFlagsAnyLower(text) ==
    LET stripped_text == Strip(Normalized(text))
        tokens == Split(stripped_text)
        letter_tokens == LetterTokens(tokens)
        spaced == /\ Len(tokens) >= 4
                  /\ 10 * Len(letter_tokens) >= 7 * Len(tokens)
                  /\ \E i \in 1..Len(stripped_text) : stripped_text[i] \in LowerLetters
    IN  IF stripped_text = <<>>
        THEN [force_uppercase |-> FALSE, apply_small_caps |-> FALSE, is_letter_spaced |-> FALSE]
        ELSE [force_uppercase |-> spaced \/ IsLowerRomanWithDot(RemoveSpaces(stripped_text)),
              apply_small_caps |-> spaced, is_letter_spaced |-> spaced]

\* _span_caps_flags (lines 402-420)
SpanCapsFlags(text) ==
    LET stripped_text == Strip(Normalized(text))
        tokens == Split(stripped_text)
        letter_tokens == LetterTokens(tokens)
        spaced == /\ Len(tokens) >= 4
                  /\ 10 * Len(letter_tokens) >= 7 * Len(tokens)
                  /\ \E i \in 1..Len(letter_tokens) : letter_tokens[i][1] \in LowerLetters
    IN  IF stripped_text = <<>>
        THEN [force_uppercase |-> FALSE, apply_small_caps |-> FALSE, is_letter_spaced |-> FALSE]
        ELSE [force_uppercase |-> spaced \/ IsLowerRomanWithDot(RemoveSpaces(stripped_text)),
              apply_small_caps |-> spaced, is_letter_spaced |-> spaced]

\* s.join(parts)
RECURSIVE Join(_, _)
Join(parts, sep) ==
    IF parts = <<>> THEN <<>>
    ELSE IF Len(parts) = 1 THEN parts[1]
    ELSE parts[1] \o sep \o Join(Tail(parts), sep)

\* the words a span text is made of, and what separates them
MaxTokens == 5
CapsTexts ==
    LET TokenWords == { <<"a">>, <<"B">>, <<"7">>, <<"i", "v", ".">> }
        Separators == { <<" ">>, <<" ", " ">>, NBSP_TOKEN }
        WordLists == UNION {[1..n -> TokenWords] : n \in 0..MaxTokens}
    IN  {Join(words, sep) : words \in WordLists, sep \in Separators}
        \cup {<<" ">> \o Join(words, <<" ">>) \o <<"\n">> : words \in WordLists}

InitCaps ==
    /\ call_pc = "called"
    /\ call_args \in {[text |-> text] : text \in CapsTexts}
    /\ call_result = Nil
    /\ IdleExcept({"call"})

CallSpanCapsFlags ==
    /\ call_pc = "called"
    /\ call_pc' = "returned"
    /\ call_result' = SpanCapsFlags(call_args.text)
    /\ UNCHANGED <<call_args, eraseVars, orderVars, textVars, extractVars, convertVars>>

SpecCaps == InitCaps /\ [][CallSpanCapsFlags]_vars

(***************************************************************************)
(* _should_center_span, and SpecCenter: one call of it.                    *)
(***************************************************************************)
\* the mutant of ShouldCenterSpan: no limit on the line width
ShouldCenterSpanAnyWidth(text, line_bbox, page_width, block_line_count, font_size, median_font_size) ==
    LET stripped_text == Strip(Normalized(text))
        tokens == Split(stripped_text)
        line_width == line_bbox[3] - line_bbox[1]
        is_letter_spaced == /\ Len(tokens) >= 4
                            /\ 10 * Len(LetterTokens(tokens)) >= 7 * Len(tokens)
        is_short_title == Len(tokens) <= 6 /\ Len(stripped_text) <= 40
        is_narrow == 100 * line_width <= 55 * page_width
        is_large == median_font_size # 0 /\ 100 * font_size >= 112 * median_font_size
    IN  IF stripped_text = <<>> \/ line_bbox = Nil \/ page_width = 0 THEN FALSE
        ELSE IF block_line_count > 3 THEN FALSE
        ELSE IF line_width <= 0 THEN FALSE
        ELSE IF 100 * Abs(line_bbox[1] + line_bbox[3] - page_width) > 16 * page_width
        THEN FALSE
        ELSE is_letter_spaced \/ (is_short_title /\ (is_large \/ is_narrow))

\* _should_center_span (lines 677-708); a missing median font size is 0
ShouldCenterSpan(text, line_bbox, page_width, block_line_count, font_size, median_font_size) ==
    LET stripped_text == Strip(Normalized(text))
        tokens == Split(stripped_text)
        line_width == line_bbox[3] - line_bbox[1]
        is_letter_spaced == /\ Len(tokens) >= 4
                            /\ 10 * Len(LetterTokens(tokens)) >= 7 * Len(tokens)
        is_short_title == Len(tokens) <= 6 /\ Len(stripped_text) <= 40
        is_narrow == 100 * line_width <= 55 * page_width
        is_large == median_font_size # 0 /\ 100 * font_size >= 112 * median_font_size
    IN  IF stripped_text = <<>> \/ line_bbox = Nil \/ page_width = 0 THEN FALSE
        ELSE IF block_line_count > 3 THEN FALSE
        ELSE IF line_width <= 0 THEN FALSE
        ELSE IF 100 * line_width > 85 * page_width THEN FALSE
        ELSE IF 100 * Abs(line_bbox[1] + line_bbox[3] - page_width) > 16 * page_width
        THEN FALSE
        ELSE is_letter_spaced \/ (is_short_title /\ (is_large \/ is_narrow))

\* the inputs of a call; lines of a 600 pt page, centred unless said otherwise
CenterTexts ==
    LET Word8 == <<"a", "b", "c", "d", "e", "f", "g", "h">>
    IN
    { <<>>, <<" ">>,
      <<"T", "i", "t", "l", "e">>,
      <<"A", " ", "B", " ", "C", " ", "D">>,
      <<"a", " ", "b", " ", "c", " ", "7", "7">>,
      <<"o", "n", "e", " ", "t", "w", "o", " ", "x", " ", "y", " ", "z", " ",
        "s", "i", "x", " ", "7", "7">>,
      Join(<<Word8, Word8, Word8, Word8, Word8>>, <<" ">>) }
CenterLineBoxes ==
    { Nil,
      <<30000, 10000, 30000, 11200>>,      \* no width
      <<32000, 10000, 28000, 11200>>,      \* x1 left of x0
      <<25000, 10000, 35000, 11200>>,      \* 100 pt
      <<13500, 10000, 46500, 11200>>,      \* 330 pt = 55%
      <<10000, 10000, 50000, 11200>>,      \* 400 pt
      <<4500, 10000, 55500, 11200>>,       \* 510 pt = 85%
      <<3000, 10000, 57000, 11200>>,       \* 540 pt = 0.9 x page width
      <<24800, 10000, 44800, 11200>>,      \* centre 48 pt = 8% right of the middle
      <<24900, 10000, 44900, 11200>>,      \* centre 49 pt right of the middle
      <<5000, 10000, 15000, 11200>> }      \* at the left margin
MaxBlockLines == 4

InitCenter ==
    /\ call_pc = "called"
    /\ call_args \in [text : CenterTexts, line_bbox : CenterLineBoxes,
                      page_width : {0, TextPageWidth},
                      block_line_count : 0..MaxBlockLines,
                      font_size : {1200, 1500}, median_font_size : {0, 1200}]
    /\ call_result = Nil
    /\ IdleExcept({"call"})

CallShouldCenterSpan ==
    /\ call_pc = "called"
    /\ call_pc' = "returned"
    /\ call_result' = ShouldCenterSpan(call_args.text, call_args.line_bbox,
                                       call_args.page_width, call_args.block_line_count,
                                       call_args.font_size, call_args.median_font_size)
    /\ UNCHANGED <<call_args, eraseVars, orderVars, textVars, extractVars, convertVars>>

SpecCenter == InitCenter /\ [][CallShouldCenterSpan]_vars

(***************************************************************************)
(* _rebuild_text_with_spacing, and SpecSpacing: the synthesis run on a     *)
(* character list and run again on what it produced.                       *)
(***************************************************************************)
\* sorted(values)
RECURSIVE Sorted(_)
Sorted(values) ==
    LET RECURSIVE InsertSorted(_, _)
        InsertSorted(sorted, v) ==
            IF sorted = <<>> THEN <<v>>
            ELSE IF v <= Head(sorted) THEN <<v>> \o sorted
            ELSE <<Head(sorted)>> \o InsertSorted(Tail(sorted), v)
    IN  IF values = <<>> THEN <<>> ELSE InsertSorted(Sorted(Tail(values)), Head(values))

\* the mutant of MedianOf: the smallest value
SmallestOf(values) == Sorted(values)[1]

\* gaps_sorted[len(gaps_sorted) // 2]
MedianOf(values) == Sorted(values)[(Len(values) \div 2) + 1]

\* int(round(num / den)) for num >= 0, den > 0: halves go to the even neighbour
RoundHalfEven(num, den) ==
    LET q == num \div den
        r == num % den
    IN  IF 2 * r < den THEN q
        ELSE IF 2 * r > den THEN q + 1
        ELSE IF q % 2 = 0 THEN q ELSE q + 1

\* nbbox[0] - bbox[2] of the pair (i, i+1), for pairs where both have a bbox
HasGap(chars, i) == chars[i].bbox # Nil /\ chars[i + 1].bbox # Nil
GapAfter(chars, i) == chars[i + 1].bbox[1] - chars[i].bbox[3]

\* the list "gaps": the positive gaps in order
PositiveGaps(chars) ==
    LET RECURSIVE PositiveGapsFrom(_)
        PositiveGapsFrom(i) ==
            IF i >= Len(chars) THEN <<>>
            ELSE (IF HasGap(chars, i) /\ GapAfter(chars, i) > 0
                  THEN <<GapAfter(chars, i)>> ELSE <<>>)
                 \o PositiveGapsFrom(i + 1)
    IN  PositiveGapsFrom(1)

\* the mutant of SpacerCount: no upper clamp
SpacerCountUnclamped(gap, font_size) ==
    Max(2, RoundHalfEven(10 * gap, Max(3 * font_size, 1000)))

\* lines 743-745: the number of spacers put into a gap of the letter-spaced path
SpacerCount(gap, font_size) ==
    Max(2, Min(6, RoundHalfEven(10 * gap, Max(3 * font_size, 1000))))

\* What the loops of lines 734-746 and 766-775 put after character i: the
\* number of spacers (letter-spaced) or of spaces (otherwise).
InsertAfter(chars, i, font_size, is_letter_spaced, median_gap) ==
    IF ~HasGap(chars, i) \/ chars[i + 1].c = " " THEN 0
    ELSE IF is_letter_spaced
    THEN (IF 10 * GapAfter(chars, i) > 6 * font_size /\ GapAfter(chars, i) > 4 * median_gap
          THEN SpacerCount(GapAfter(chars, i), font_size) ELSE 0)
    ELSE (IF GapAfter(chars, i) > 3 * median_gap /\ 10 * GapAfter(chars, i) > 4 * font_size
          THEN 1 ELSE 0)

\* TRUE when the function returns "" before its rebuild loop
RebuildsNothing(chars, is_letter_spaced) ==
    \/ Len(chars) < 2
    \/ PositiveGaps(chars) = <<>>
    \/ ~is_letter_spaced /\ MedianOf(PositiveGaps(chars)) <= 50

RECURSIVE Repeat(_, _)
Repeat(s, n) == IF n = 0 THEN <<>> ELSE s \o Repeat(s, n - 1)

\* the mutant of RebuiltFrom: a space or spacer takes the place of the
\* character before the gap
RebuiltOverwriting(chars, i, font_size, is_letter_spaced, median_gap) ==
    [k \in 1..Len(chars) |->
        IF k < Len(chars) /\ InsertAfter(chars, k, font_size, is_letter_spaced, median_gap) > 0
        THEN " " ELSE chars[k].c]

RECURSIVE RebuiltFrom(_, _, _, _, _)
RebuiltFrom(chars, i, font_size, is_letter_spaced, median_gap) ==
    IF i = Len(chars) THEN <<chars[i].c>>
    ELSE <<chars[i].c>>
         \o Repeat(IF is_letter_spaced THEN NBSP_TOKEN ELSE <<" ">>,
                   InsertAfter(chars, i, font_size, is_letter_spaced, median_gap))
         \o RebuiltFrom(chars, i + 1, font_size, is_letter_spaced, median_gap)

\* _rebuild_text_with_spacing (lines 710-777): the text as a sequence of
\* characters, <<>> for ""
RebuildTextWithSpacing(chars, font_size, is_letter_spaced) ==
    IF RebuildsNothing(chars, is_letter_spaced) THEN <<>>
    ELSE RebuiltFrom(chars, 1, font_size, is_letter_spaced, MedianOf(PositiveGaps(chars)))

\* The number of spacers or spaces the synthesis puts after each character.
InsertedCounts(chars, font_size, is_letter_spaced) ==
    IF RebuildsNothing(chars, is_letter_spaced) THEN [i \in 1..(Len(chars) - 1) |-> 0]
    ELSE [i \in 1..(Len(chars) - 1) |->
            InsertAfter(chars, i, font_size, is_letter_spaced, MedianOf(PositiveGaps(chars)))]

\* The produced character sequence with its geometry: the original characters
\* and, in each gap that received them, the inserted spaces or spacers: side
\* by side, sharing the gap ("fill"), or without width at the left ("left") or
\* at the right ("right") end of the gap.
SpacedChars(chars, font_size, is_letter_spaced, placement) ==
    LET counts == InsertedCounts(chars, font_size, is_letter_spaced)
        InsertedChars(i) ==
            LET x0 == chars[i].bbox[3]
                x1 == chars[i + 1].bbox[1]
                y0 == chars[i].bbox[2]
                y1 == chars[i].bbox[4]
            IN  [k \in 1..counts[i] |->
                    [c |-> IF is_letter_spaced THEN "NBSP" ELSE " ",
                     bbox |-> IF placement = "fill"
                              THEN <<x0 + ((k - 1) * (x1 - x0)) \div counts[i], y0,
                                     x0 + (k * (x1 - x0)) \div counts[i], y1>>
                              ELSE IF placement = "left" THEN <<x0, y0, x0, y1>>
                              ELSE <<x1, y0, x1, y1>>]]
        RECURSIVE SpacedCharsFrom(_)
        SpacedCharsFrom(i) ==
            IF i = Len(chars) THEN <<chars[i]>>
            ELSE <<chars[i]>> \o InsertedChars(i) \o SpacedCharsFrom(i + 1)
    IN  IF chars = <<>> THEN <<>> ELSE SpacedCharsFrom(1)

\* character lists: 5 pt wide letters on one baseline, separated by the gaps
MaxChars == 5
CharWidth == 500
CharsWithGaps(gaps) ==
    LET Letters == <<"a", "b", "c", "d", "e", "f", "g", "h", "i", "j", "k", "l">>
        RECURSIVE LeftOf(_)
        LeftOf(i) == IF i = 1 THEN 1000 ELSE LeftOf(i - 1) + CharWidth + gaps[i - 1]
    IN  [i \in 1..(Len(gaps) + 1) |->
            [c |-> Letters[i], bbox |-> <<LeftOf(i), 10000, LeftOf(i) + CharWidth, 11200>>]]
\* gaps of 0, 0.5, 1, 10 and 50 pt
GapLists == UNION {[1..n -> {0, 50, 100, 1000, 5000}] : n \in 1..(MaxChars - 1)}
\* the number of gaps of the character lists that are varied
MaxVariantGaps == 3

\* The calls: letters of a 12 pt font, and short lists with gaps of 0.1, 1 and
\* 10 pt in a 1 pt and a 12 pt font, as they are and with one character
\* replaced by a space or a tab, or left without a bbox.
InitSpacing ==
    LET Variant(chars, at, kind) ==
            [chars EXCEPT ![at] = IF kind = "no bbox" THEN [c |-> @.c, bbox |-> Nil]
                                  ELSE [c |-> kind, bbox |-> @.bbox]]
        Variants(short) ==
            short \cup {Variant(chars, at, kind) : chars \in short,
                                                   at \in 1..(MaxVariantGaps + 1),
                                                   kind \in {" ", "\t", "no bbox"}}
    IN  /\ call_pc = "called"
        /\ call_args \in
              [chars : {CharsWithGaps(gaps) : gaps \in GapLists},
               font_size : {1200},
               is_letter_spaced : BOOLEAN,
               placement : {"fill", "left", "right"}]
              \cup
              [chars : Variants({CharsWithGaps(gaps) :
                                    gaps \in [1..MaxVariantGaps -> {10, 100, 1000}]}),
               font_size : {100, 1200},
               is_letter_spaced : BOOLEAN,
               placement : {"fill", "left", "right"}]
        /\ call_result = Nil
        /\ IdleExcept({"call"})

\* the first run, and the produced characters with their geometry
CallRebuildTextWithSpacing ==
    /\ call_pc = "called"
    /\ call_pc' = "rebuilt"
    /\ call_result' =
          [text |-> RebuildTextWithSpacing(call_args.chars, call_args.font_size,
                                           call_args.is_letter_spaced),
           chars |-> SpacedChars(call_args.chars, call_args.font_size,
                                 call_args.is_letter_spaced, call_args.placement),
           again |-> Nil]
    /\ UNCHANGED <<call_args, eraseVars, orderVars, textVars, extractVars, convertVars>>

\* the second run, on the produced characters
CallRebuildTextAgain ==
    /\ call_pc = "rebuilt"
    /\ call_pc' = "returned"
    /\ call_result' =
          [call_result EXCEPT !.again =
              [text |-> RebuildTextWithSpacing(call_result.chars, call_args.font_size,
                                               call_args.is_letter_spaced),
               counts |-> InsertedCounts(call_result.chars, call_args.font_size,
                                         call_args.is_letter_spaced)]]
    /\ UNCHANGED <<call_args, eraseVars, orderVars, textVars, extractVars, convertVars>>

SpecSpacing == InitSpacing /\ [][CallRebuildTextWithSpacing \/ CallRebuildTextAgain]_vars

(***************************************************************************)
(* extract_extractable_glyphs and its helpers.  A font name is the sequence *)
(* of its "+"-separated parts; a colour is the integer 0xRRGGBB.            *)
(***************************************************************************)
\* _normalize_font_name (lines 831-853): the part after the last "+"
NormalizeFontName(font_name) ==
    IF font_name = <<>> THEN font_name ELSE <<font_name[Len(font_name)]>>

\* the mutant of FontFlag: no font name carries a hint
NoFontFlag(font_name) == FALSE

\* any(k in font_hint for k in ("drop", "decor", "orn", "init", "swash"))
FontFlag(font_name) == font_name \in {<<"DropCaps">>, <<"Ornaments">>}

\* (color >> 16) & 0xFF, (color >> 8) & 0xFF, color & 0xFF
ColorOf(color) == <<(color \div 65536) % 256, (color \div 256) % 256, color % 256>>

\* "".join(ch.get("c", "") for ch in chars)
JoinChars(chars) == [i \in 1..Len(chars) |-> chars[i].c]

\* [c for c in chars if c.get("c") and c.get("bbox")]
UsableChars(chars) == SelectSeq(chars, LAMBDA ch : ch.c # "" /\ ch.bbox # Nil)

\* sorted(items, key=lambda s: (bbox[0], bbox[1])), a missing bbox counting
\* as [0, 0, 0, 0]; the sort is stable
RECURSIVE SortedByBBox(_)
SortedByBBox(items) ==
    LET BBoxKey(item) ==
            IF item.bbox = Nil THEN <<0, 0>> ELSE <<item.bbox[1], item.bbox[2]>>
        KeyBefore(a, b) == a[1] < b[1] \/ (a[1] = b[1] /\ a[2] < b[2])
        RECURSIVE InsertByBBox(_, _)
        InsertByBBox(sorted, item) ==
            IF sorted = <<>> THEN <<item>>
            ELSE IF KeyBefore(BBoxKey(item), BBoxKey(Head(sorted))) THEN <<item>> \o sorted
            ELSE <<Head(sorted)>> \o InsertByBBox(Tail(sorted), item)
    IN  IF items = <<>> THEN <<>>
        ELSE InsertByBBox(SortedByBBox(SubSeq(items, 1, Len(items) - 1)), items[Len(items)])

\* lines 791-806: the gaps that are not negative, next to a space character
\* (by_space) or between two other characters
RECURSIVE GapsOfKind(_, _, _)
GapsOfKind(chars, i, by_space) ==
    IF i >= Len(chars) THEN <<>>
    ELSE (IF /\ HasGap(chars, i)
             /\ GapAfter(chars, i) >= 0
             /\ by_space = (chars[i].c = " " \/ chars[i + 1].c = " ")
          THEN <<GapAfter(chars, i)>> ELSE <<>>)
         \o GapsOfKind(chars, i + 1, by_space)
\* lines 789-829: the spacing measured from the gaps
MeasuredSpacing(chars, font_size) ==
    LET letter_gaps == GapsOfKind(chars, 1, FALSE)
        space_gaps == GapsOfKind(chars, 1, TRUE)
        letter_gap == IF letter_gaps # <<>> THEN MedianOf(letter_gaps) ELSE 0
        \* g > max(letter_gap * 3.0, font_size * 0.4)
        large_gaps == SelectSeq(letter_gaps,
                         LAMBDA g : g > 3 * letter_gap /\ 10 * g > 4 * font_size)
        space_gap == IF space_gaps # <<>> THEN Some(MedianOf(space_gaps))
                     ELSE IF large_gaps # <<>> THEN Some(MedianOf(large_gaps))
                     ELSE Nil
        extra == space_gap[1] - (IF letter_gap > 0 THEN letter_gap ELSE 0)
    IN  IF letter_gaps = <<>> /\ space_gaps = <<>> THEN <<Nil, Nil>>
        ELSE <<IF letter_gap > 10 THEN Some(letter_gap) ELSE Nil,
               IF space_gap # Nil /\ space_gap[1] > 10 /\ extra > 10
               THEN Some(extra) ELSE Nil>>

\* the mutant of ComputeSpanSpacing: letter-spaced runs are measured too
ComputeSpanSpacingAlways(chars, font_size, is_letter_spaced) ==
    IF chars = Nil \/ Len(chars) < 2 THEN <<Nil, Nil>>
    ELSE MeasuredSpacing(chars, font_size)

\* _compute_span_spacing (lines 779-829): <<letter_spacing, word_spacing>>,
\* each Nil or Some(hundredths of a point)
ComputeSpanSpacing(chars, font_size, is_letter_spaced) ==
    IF chars = Nil \/ Len(chars) < 2 \/ is_letter_spaced THEN <<Nil, Nil>>
    ELSE MeasuredSpacing(chars, font_size)

\* the mutant of IsDropcapCandidate: a text of any length qualifies
IsDropcapCandidateAnyLength(text, font_size, bbox, median_font_size, font_name, block_bbox) ==
    IF text = <<>> \/ bbox = Nil \/ median_font_size = 0 THEN FALSE
    ELSE IF 10 * font_size < 24 * median_font_size THEN FALSE
    ELSE LET width == Max(0, bbox[3] - bbox[1])
             height == Max(0, bbox[4] - bbox[2])
         IN  IF width = 0 \/ height = 0 THEN FALSE
             ELSE IF block_bbox # Nil /\ 2 * bbox[1] > 2 * block_bbox[1] + median_font_size
             THEN FALSE
             ELSE IF ~FontFlag(font_name) /\ ~(6 * height <= 10 * width /\ 10 * width <= 14 * height)
             THEN FALSE
             ELSE IF height < 2 * median_font_size THEN FALSE
             ELSE TRUE

\* _is_dropcap_candidate (lines 604-628)
IsDropcapCandidate(text, font_size, bbox, median_font_size, font_name, block_bbox) ==
    IF text = <<>> \/ bbox = Nil \/ median_font_size = 0 THEN FALSE
    ELSE IF Len(Strip(Normalized(text))) # 1 THEN FALSE
    ELSE IF 10 * font_size < 24 * median_font_size THEN FALSE
    ELSE LET width == Max(0, bbox[3] - bbox[1])
             height == Max(0, bbox[4] - bbox[2])
         IN  IF width = 0 \/ height = 0 THEN FALSE
             ELSE IF block_bbox # Nil /\ 2 * bbox[1] > 2 * block_bbox[1] + median_font_size
             THEN FALSE
             ELSE IF ~FontFlag(font_name) /\ ~(6 * height <= 10 * width /\ 10 * width <= 14 * height)
             THEN FALSE
             ELSE IF height < 2 * median_font_size THEN FALSE
             ELSE TRUE

\* _is_title_line (lines 650-675)
IsTitleLine(line) ==
    LET \* the text of the line as lines 654-663 join it
        RECURSIVE TitleParts(_)
        TitleParts(spans) ==
            IF spans = <<>> THEN <<>>
            ELSE (IF Head(spans).chars # Nil /\ Head(spans).chars # <<>>
                  THEN <<JoinChars(Head(spans).chars)>>
                  ELSE IF Head(spans).text # Nil /\ Head(spans).text # <<>>
                  THEN <<Head(spans).text>> ELSE <<>>)
                 \o TitleParts(Tail(spans))
        \* re.fullmatch(r"[ivxlcdmIVXLCDM]+\.", s)
        IsRomanWithDot(s) ==
            /\ Len(s) >= 2
            /\ s[Len(s)] = "."
            /\ \A i \in 1..(Len(s) - 1) :
                  s[i] \in {"i", "v", "x", "l", "c", "d", "m",
                            "I", "V", "X", "L", "C", "D", "M"}
        stripped_text == Strip(Normalized(Join(TitleParts(line.spans), <<" ">>)))
        tokens == Split(stripped_text)
        letter_tokens == LetterTokens(tokens)
    IN  IF line.spans = <<>> \/ stripped_text = <<>> THEN FALSE
        ELSE \/ /\ Len(tokens) >= 2
                /\ letter_tokens # <<>>
                /\ 10 * Len(letter_tokens) >= 7 * Len(tokens)
             \/ IsRomanWithDot(RemoveSpaces(stripped_text))

\* key = round(bbox[1] / 0.5) * 0.5, in half points (y is not negative)
BaselineKey(bbox) == RoundHalfEven(2 * bbox[2], 100)

\* _merge_line_group (lines 630-648)
RECURSIVE SpansOfLines(_)
SpansOfLines(group) ==
    IF group = <<>> THEN <<>> ELSE Head(group).spans \o SpansOfLines(Tail(group))
MergeLineGroup(group) ==
    LET boxed == {i \in 1..Len(group) : group[i].bbox # Nil}
    IN  [bbox |-> <<SetMin({group[i].bbox[1] : i \in boxed}),
                    SetMin({group[i].bbox[2] : i \in boxed}),
                    SetMax({group[i].bbox[3] : i \in boxed}),
                    SetMax({group[i].bbox[4] : i \in boxed})>>,
         spans |-> SpansOfLines(group),
         line_groups |-> group]

\* grouped.setdefault(key, []).append(line) over the lines at the positions
\* "members": the groups as sequences of positions, in order of first key
Grouped(lines, members) ==
    LET RECURSIVE GroupedFrom(_, _)
        GroupedFrom(i, groups) ==
            IF i > Len(lines) THEN groups
            ELSE IF i \notin members THEN GroupedFrom(i + 1, groups)
            ELSE LET same == {k \in 1..Len(groups) :
                                BaselineKey(lines[groups[k][1]].bbox)
                                    = BaselineKey(lines[i].bbox)}
                 IN  IF same = {}
                     THEN GroupedFrom(i + 1, Append(groups, <<i>>))
                     ELSE GroupedFrom(i + 1, [groups EXCEPT ![SetMin(same)] = Append(@, i)])
    IN  GroupedFrom(1, <<>>)

LinesAt(lines, positions) == [k \in 1..Len(positions) |-> lines[positions[k]]]

\* lines 94-108: a block of 1 to 3 lines
MergedShortBlock(block_lines) ==
    LET groups == Grouped(block_lines, {i \in 1..Len(block_lines) : block_lines[i].bbox # Nil})
    IN  [k \in 1..Len(groups) |->
            IF Len(groups[k]) = 1 THEN block_lines[groups[k][1]]
            ELSE MergeLineGroup(LinesAt(block_lines, groups[k]))]

\* the mutant of MergedLongBlock: lines that are no title candidates are
\* fused as well
MergedLongBlockOfAnyLines(block_lines) == MergedShortBlock(block_lines)

\* lines 109-138: any other block
MergedLongBlock(block_lines) ==
    LET groups == Grouped(block_lines,
                          {i \in 1..Len(block_lines) :
                              IsTitleLine(block_lines[i]) /\ block_lines[i].bbox # Nil})
        merged_groups == SelectSeq(groups, LAMBDA group : Len(group) > 1)
        \* lines 125-138: a merged group takes the place of its first line
        RECURSIVE OrderedLinesFrom(_)
        OrderedLinesFrom(i) ==
            IF i > Len(block_lines) THEN <<>>
            ELSE LET mine == {k \in 1..Len(merged_groups) :
                                \E m \in 1..Len(merged_groups[k]) : merged_groups[k][m] = i}
                 IN  (IF mine = {} THEN <<block_lines[i]>>
                      ELSE IF merged_groups[SetMin(mine)][1] = i
                      THEN <<MergeLineGroup(LinesAt(block_lines, merged_groups[SetMin(mine)]))>>
                      ELSE <<>>)
                     \o OrderedLinesFrom(i + 1)
    IN  IF merged_groups = <<>> THEN block_lines
        ELSE OrderedLinesFrom(1)

\* lines 90-138: lines_to_process
LinesToProcess(block_lines) ==
    IF Len(block_lines) >= 1 /\ Len(block_lines) <= 3 THEN MergedShortBlock(block_lines)
    ELSE MergedLongBlock(block_lines)

\* lines 75-86: the median of the span sizes of the page, 12 when there is none
MedianFontSize(blocks) ==
    LET RECURSIVE SizesOfSpans(_)
        SizesOfSpans(spans) ==
            IF spans = <<>> THEN <<>>
            ELSE (IF Head(spans).size # 0 THEN <<Head(spans).size>> ELSE <<>>)
                 \o SizesOfSpans(Tail(spans))
        RECURSIVE SizesOfBlocks(_)
        SizesOfBlocks(rest) ==
            IF rest = <<>> THEN <<>>
            ELSE (IF Head(rest).lines = Nil THEN <<>>
                  ELSE SizesOfSpans(SpansOfLines(Head(rest).lines)))
                 \o SizesOfBlocks(Tail(rest))
        font_sizes == SizesOfBlocks(blocks)
    IN  IF font_sizes = <<>> THEN 1200 ELSE MedianOf(font_sizes)

\* the mutant of MergeKind: the font sizes are not compared
MergeKindAnySize(spans) ==
    IF spans = <<>> THEN "none"
    ELSE IF Cardinality({NormalizeFontName(spans[i].font) : i \in 1..Len(spans)}) # 1
    THEN "none"
    ELSE IF Cardinality({spans[i].color : i \in 1..Len(spans)}) # 1 THEN "none"
    ELSE IF \A i \in 1..Len(spans) : spans[i].chars # Nil /\ spans[i].chars # <<>>
    THEN "chars"
    ELSE IF \A i \in 1..Len(spans) : spans[i].text # Nil /\ Strip(spans[i].text) # <<>>
    THEN "text"
    ELSE "none"

\* lines 146-165: "chars" (merge the characters), "text" (merge the texts) or
\* "none"
MergeKind(spans) ==
    LET sizes == {spans[i].size : i \in 1..Len(spans)}
    IN  IF spans = <<>> THEN "none"
        ELSE IF Cardinality({NormalizeFontName(spans[i].font) : i \in 1..Len(spans)}) # 1
        THEN "none"
        ELSE IF Cardinality({spans[i].color : i \in 1..Len(spans)}) # 1 THEN "none"
        ELSE IF SetMax(sizes) - SetMin(sizes) > 20 THEN "none"
        ELSE IF \A i \in 1..Len(spans) : spans[i].chars # Nil /\ spans[i].chars # <<>>
        THEN "chars"
        ELSE IF \A i \in 1..Len(spans) : spans[i].text # Nil /\ Strip(spans[i].text) # <<>>
        THEN "text"
        ELSE "none"

RECURSIVE CharsOfSpans(_)
CharsOfSpans(spans) ==
    IF spans = <<>> THEN <<>>
    ELSE (IF Head(spans).chars = Nil THEN <<>> ELSE Head(spans).chars)
         \o CharsOfSpans(Tail(spans))

\* lines 185-220: the text of a fused line, group by group
LineGroupsText(line_groups, font_size) ==
    LET \* lines 185-194: the median width of the space characters of the groups
        spaces == SelectSeq(CharsOfSpans(SpansOfLines(line_groups)),
                            LAMBDA ch : ch.c = " " /\ ch.bbox # Nil)
        space_widths == [i \in 1..Len(spaces) |-> spaces[i].bbox[3] - spaces[i].bbox[1]]
        space_unit == IF space_widths = <<>> THEN Nil ELSE Some(MedianOf(space_widths))
        \* lines 204-216: the number of spacer tokens put before a group
        GroupSpacerCount(gap) ==
            LET count == IF space_unit # Nil /\ space_unit[1] > 0
                         THEN Max(6, Min(20, RoundHalfEven(22 * gap, 10 * space_unit[1])))
                         ELSE Max(2, Min(6, RoundHalfEven(10 * gap, Max(3 * font_size, 1000))))
            IN  IF gap > 2 * font_size THEN Min(count, 3) ELSE count
        RECURSIVE GroupParts(_, _)
        GroupParts(i, prev_bbox) ==
            IF i > Len(line_groups) THEN <<>>
            ELSE LET lg == line_groups[i]
                     lg_chars == UsableChars(CharsOfSpans(lg.spans))
                     gap == lg.bbox[1] - prev_bbox[3]
                 IN  IF lg_chars = <<>>
                     THEN GroupParts(i + 1, prev_bbox)
                     ELSE (IF /\ prev_bbox # Nil /\ lg.bbox # Nil
                              /\ 10 * gap > 6 * font_size /\ gap > 300
                           THEN Repeat(NBSP_TOKEN, GroupSpacerCount(gap))
                           ELSE <<>>)
                          \o JoinChars(lg_chars)
                          \o GroupParts(i + 1, IF lg.bbox # Nil THEN lg.bbox ELSE prev_bbox)
    IN  GroupParts(1, Nil)

\* the span dictionary appended to extractable_glyphs
EmittedSpan(text, bbox, font_size, font_name, color, chars, flags, spacing, align_center, line_bbox, block_bbox, page_width, dropcap) ==
    [text |-> text, bbox |-> bbox, font_size |-> font_size, font_name |-> font_name,
     color |-> ColorOf(color), chars |-> chars,
     force_uppercase |-> flags.force_uppercase,
     apply_small_caps |-> flags.apply_small_caps,
     letter_spacing |-> spacing[1], word_spacing |-> spacing[2],
     align_center |-> align_center, line_bbox |-> line_bbox, block_bbox |-> block_bbox,
     page_width |-> page_width, dropcap_candidate |-> dropcap]

\* lines 167-271: the span merged from the characters of the line, if any
MergedFromChars(line, block_line_count, block_bbox, page_width, median_font_size) ==
    LET spans == line.spans
        merged_chars == SortedByBBox(UsableChars(CharsOfSpans(spans)))
        font_name == NormalizeFontName(spans[1].font)
        font_size == spans[1].size
        grouped_text == IF line.line_groups # Nil /\ line.line_groups # <<>>
                        THEN LineGroupsText(line.line_groups, font_size) ELSE <<>>
        rebuilt == IF grouped_text # <<>> THEN grouped_text
                   ELSE RebuildTextWithSpacing(merged_chars, font_size, FALSE)
        span_text == IF rebuilt # <<>> THEN rebuilt ELSE JoinChars(merged_chars)
        flags == SpanCapsFlags(span_text)
        bbox == IF line.bbox # Nil THEN line.bbox ELSE spans[1].bbox
    IN  IF merged_chars = <<>> \/ Strip(span_text) = <<>> THEN <<>>
        ELSE <<EmittedSpan(span_text, bbox, font_size, font_name, spans[1].color,
                           merged_chars, flags,
                           ComputeSpanSpacing(merged_chars, font_size, flags.is_letter_spaced),
                           ShouldCenterSpan(span_text, line.bbox, page_width,
                                            block_line_count, font_size, median_font_size),
                           line.bbox, block_bbox, page_width,
                           IsDropcapCandidate(span_text, font_size, bbox, median_font_size,
                                              font_name, block_bbox))>>

\* lines 283-294: the texts of the ordered spans, a space where they stand
\* more than max(font_size * 0.4, 2.0) apart
\* lines 272-329: the span merged from the texts of the line
MergedFromText(line, block_line_count, block_bbox, page_width, median_font_size) ==
    LET spans == line.spans
        font_name == NormalizeFontName(spans[1].font)
        font_size == spans[1].size
        ordered == SortedByBBox(spans)
        RECURSIVE MergedText(_)
        MergedText(i) ==
            IF i > Len(ordered) THEN <<>>
            ELSE (IF /\ i > 1
                     /\ ordered[i - 1].bbox # Nil /\ ordered[i].bbox # Nil
                     /\ 10 * (ordered[i].bbox[1] - ordered[i - 1].bbox[3]) > 4 * font_size
                     /\ ordered[i].bbox[1] - ordered[i - 1].bbox[3] > 200
                  THEN <<" ">> ELSE <<>>)
                 \o (IF ordered[i].text = Nil THEN <<>> ELSE ordered[i].text)
                 \o MergedText(i + 1)
        span_text == MergedText(1)
        flags == SpanCapsFlags(span_text)
        bbox == IF line.bbox # Nil THEN line.bbox ELSE ordered[1].bbox
    IN  <<EmittedSpan(span_text, bbox, font_size, font_name, spans[1].color, Nil, flags,
                      <<Nil, Nil>>,
                      ShouldCenterSpan(span_text, line.bbox, page_width, block_line_count,
                                       font_size, median_font_size),
                      line.bbox, block_bbox, page_width,
                      IsDropcapCandidate(span_text, font_size, bbox, median_font_size,
                                         font_name, block_bbox))>>

\* lines 331-398: the spans of a line that is not merged, one by one; a span
\* without a "bbox" key makes span["bbox"] raise
UnmergedSpan(span, line, block_line_count, block_bbox, page_width, median) ==
    LET has_chars == span.chars # Nil /\ span.chars # <<>>
        own_text == IF span.text # Nil /\ span.text # <<>> THEN span.text
                    ELSE IF has_chars THEN JoinChars(span.chars) ELSE <<>>
        chars == IF span.chars = Nil THEN <<>> ELSE span.chars
        font_name == NormalizeFontName(span.font)
        rebuilt_text == RebuildTextWithSpacing(chars, span.size, FALSE)
        span_text == IF rebuilt_text # <<>> THEN rebuilt_text ELSE own_text
        flags == SpanCapsFlags(span_text)
    IN  IF Strip(own_text) = <<>> THEN [glyphs |-> <<>>, raised |-> FALSE]
        ELSE IF span.bbox = Nil THEN [glyphs |-> <<>>, raised |-> TRUE]
        ELSE [glyphs |->
                <<EmittedSpan(span_text, span.bbox, span.size, font_name, span.color, chars,
                              flags,
                              ComputeSpanSpacing(chars, span.size, flags.is_letter_spaced),
                              ShouldCenterSpan(span_text, line.bbox, page_width,
                                               block_line_count, span.size, median),
                              line.bbox, block_bbox, page_width,
                              IsDropcapCandidate(span_text, span.size, span.bbox, median,
                                                 font_name, block_bbox))>>,
              raised |-> FALSE]
RECURSIVE UnmergedFrom(_, _, _, _, _, _)
UnmergedFrom(line, i, block_line_count, block_bbox, page_width, median) ==
    IF i > Len(line.spans) THEN [glyphs |-> <<>>, raised |-> FALSE]
    ELSE LET one == UnmergedSpan(line.spans[i], line, block_line_count, block_bbox,
                                 page_width, median)
             rest == UnmergedFrom(line, i + 1, block_line_count, block_bbox, page_width,
                                  median)
         IN  IF one.raised THEN one
             ELSE [glyphs |-> one.glyphs \o rest.glyphs, raised |-> rest.raised]

\* lines 140-398: one iteration of "for line in lines_to_process"
ProcessLine(line, block_line_count, block_bbox, page_width, median) ==
    IF MergeKind(line.spans) = "chars"
    THEN [glyphs |-> MergedFromChars(line, block_line_count, block_bbox, page_width, median),
          raised |-> FALSE]
    ELSE IF MergeKind(line.spans) = "text"
    THEN [glyphs |-> MergedFromText(line, block_line_count, block_bbox, page_width, median),
          raised |-> FALSE]
    ELSE UnmergedFrom(line, 1, block_line_count, block_bbox, page_width, median)

(***************************************************************************)
(* The pages handed to extract_extractable_glyphs: a 600 pt wide page with *)
(* one text block, alone or after an image block.                          *)
(***************************************************************************)
RawSpan(size, font, color, chars, text, bbox) ==
    [size |-> size, font |-> font, color |-> color, chars |-> chars, text |-> text,
     bbox |-> bbox]
RawLine(bbox, spans) == [bbox |-> bbox, spans |-> spans, line_groups |-> Nil]
Helv == <<"ABCDEF", "Helvetica">>

\* the letters of a word from x on, on the baseline box y0..y1: 6 pt wide,
\* with a 3 pt space character between them, "gap" away from both letters
RECURSIVE WordChars(_, _, _, _, _)
WordChars(word, x, y0, y1, gap) ==
    IF word = <<>> THEN <<>>
    ELSE <<Char(Head(word), <<x, y0, x + 600, y1>>)>>
         \o (IF Len(word) > 1
             THEN <<Char(" ", <<x + 600 + gap, y0, x + 900 + gap, y1>>)>> ELSE <<>>)
         \o WordChars(Tail(word), x + 900 + 2 * gap, y0, y1, gap)
\* one span per letter, carrying its character or, if "as_text", its text
LetterSpans(word, x, gap, as_text) ==
    [i \in 1..Len(word) |->
        LET x0 == x + (i - 1) * (600 + gap)
            box == <<x0, 10000, x0 + 600, 11200>>
        IN  RawSpan(1200, Helv, 0,
                    IF as_text THEN Nil ELSE <<Char(word[i], box)>>,
                    IF as_text THEN <<word[i]>> ELSE Nil, box)]
CharLine(word, x, y0, y1) ==
    LET chars == WordChars(word, x, y0, y1, 100)
        box == <<x, y0, chars[Len(chars)].bbox[3], y1>>
    IN  RawLine(box, <<RawSpan(1200, Helv, 0, chars, Nil, box)>>)
TextLine(text, box, size) == RawLine(box, <<RawSpan(size, Helv, 0, Nil, text, box)>>)

LowerHello == <<"h", "e", "l", "l", "o">>
UpperHello == <<"H", "E", "L", "L", "O">>

ExtractLines ==
    { \* the letters of a word set apart by space characters, in one span
      CharLine(LowerHello, 27000, 10000, 11200),
      CharLine(UpperHello, 27000, 10000, 11200),
      \* five text spans, one letter each, 6 pt apart
      RawLine(<<27000, 10000, 32400, 11200>>, LetterSpans(LowerHello, 27000, 600, TRUE)),
      RawLine(<<27000, 10000, 32400, 11200>>, LetterSpans(UpperHello, 27000, 600, TRUE)),
      \* five spans of one character each, 6 pt apart, no space characters
      RawLine(<<27000, 10000, 32400, 11200>>, LetterSpans(LowerHello, 27000, 600, FALSE)),
      \* a line and span bbox without width
      TextLine(<<"a">>, <<27000, 10000, 27000, 11200>>, 1200),
      \* a character without width, alone on its line
      RawLine(<<27000, 10000, 27000, 11200>>,
              <<RawSpan(1200, Helv, 0, <<Char("i", <<27000, 10000, 27000, 11200>>)>>, Nil,
                        <<27000, 10000, 27000, 11200>>)>>),
      \* two sizes on a line: not merged; the first span's bbox has no height
      RawLine(<<27000, 20000, 33000, 21400>>,
              <<RawSpan(1200, Helv, 0, Nil, <<"a">>, <<27000, 21400, 28000, 21400>>),
                RawSpan(1400, Helv, 0, Nil, <<"b">>, <<29000, 20000, 33000, 21400>>)>>),
      \* a line and a span that carry no bbox
      RawLine(Nil, <<RawSpan(1200, Helv, 0, Nil, <<"x">>, Nil)>>),
      \* two colours on a line, the second span without bbox
      RawLine(<<27000, 30000, 33000, 31200>>,
              <<RawSpan(1200, Helv, 0, Nil, <<"r">>, <<27000, 30000, 28000, 31200>>),
                RawSpan(1200, Helv, 128, Nil, <<"s">>, Nil)>>),
      \* two title lines on one baseline
      CharLine(<<"A", "B">>, 10000, 40000, 41200),
      CharLine(<<"C", "D">>, 30000, 40010, 41210),
      \* a blank line
      TextLine(<<" ">>, <<27000, 45000, 27300, 46200>>, 1200),
      \* a line whose only character is a space character
      RawLine(<<27000, 47000, 27300, 48200>>,
              <<RawSpan(1200, Helv, 0, <<Char(" ", <<27000, 47000, 27300, 48200>>)>>, Nil,
                        <<27000, 47000, 27300, 48200>>)>>),
      \* a 36 pt initial at the left edge of the block, alone and with a
      \* second letter
      TextLine(<<"D">>, <<5000, 10000, 8000, 13600>>, 3600),
      TextLine(<<"D", "o">>, <<5000, 10000, 8000, 13600>>, 3600) }

BodyLines ==
    << TextLine(<<"B", "o", "d", "y">>, <<5000, 50000, 50000, 51200>>, 1200),
       TextLine(<<"t", "e", "x", "t">>, <<5000, 51400, 50000, 52600>>, 1200),
       TextLine(<<"e", "n", "d", ".">>, <<5000, 52800, 20000, 54000>>, 1200) >>

MaxLines == 2
MaxMergeLines == 4
Pages ==
    LET ShortBlocks == UNION {[1..n -> ExtractLines] : n \in 1..MaxLines}
        BlockBBox == <<5000, 10000, 55000, 54000>>
        TextBlocks ==
            {[lines |-> lines, bbox |-> BlockBBox] : lines \in ShortBlocks}
            \cup {[lines |-> lines \o BodyLines, bbox |-> BlockBBox] : lines \in ShortBlocks}
        ImageBlock == [lines |-> Nil, bbox |-> <<5000, 1000, 55000, 9000>>]
        \* the lines of the blocks that exercise the merging of lines
        MergeLines ==
            { \* two title lines, 20 pt apart, and a line of body text on the
              \* baseline y = 400 pt
              CharLine(<<"A", "B">>, 10000, 40000, 41200),
              CharLine(<<"C", "D">>, 13700, 40010, 41210),
              TextLine(<<"a", "b">>, <<20000, 40020, 22400, 41220>>, 1200),
              \* a title line on the baseline y = 420 pt
              CharLine(<<"E", "F">>, 10000, 42000, 43200),
              \* a title line that carries no bbox
              RawLine(Nil, <<RawSpan(1200, Helv, 0, Nil, <<"G", " ", "H">>,
                                     <<40000, 40000, 42400, 41200>>)>>) }
        MergeBlocks == UNION {[1..n -> MergeLines] : n \in 1..MaxMergeLines}
    IN  {<<block>> : block \in TextBlocks} \cup {<<ImageBlock, block>> : block \in TextBlocks}
        \cup {<<[lines |-> lines, bbox |-> BlockBBox]>> : lines \in MergeBlocks}

(***************************************************************************)
(* SpecExtract: one call of extract_extractable_glyphs.                    *)
(***************************************************************************)
InitExtract ==
    /\ e_pc = "start"
    /\ e_blocks \in Pages
    /\ e_block = 0 /\ e_lines = <<>> /\ e_line = 0
    /\ e_median = 0
    /\ extractable_glyphs = <<>>
    /\ IdleExcept({"extract"})

\* lines 72-86
StartExtract ==
    /\ e_pc = "start"
    /\ e_pc' = "block"
    /\ e_median' = MedianFontSize(e_blocks)
    /\ UNCHANGED <<e_blocks, e_block, e_lines, e_line, extractable_glyphs,
                   eraseVars, orderVars, textVars, callVars, convertVars>>

\* lines 88-138: the next block; a block without "lines" has nothing to process
EnterBlock ==
    /\ e_pc = "block"
    /\ e_block < Len(e_blocks)
    /\ e_block' = e_block + 1
    /\ e_lines' = IF e_blocks[e_block + 1].lines = Nil THEN <<>>
                  ELSE LinesToProcess(e_blocks[e_block + 1].lines)
    /\ e_line' = 0
    /\ e_pc' = "lines"
    /\ UNCHANGED <<e_blocks, e_median, extractable_glyphs,
                   eraseVars, orderVars, textVars, callVars, convertVars>>

\* lines 140-398: the next line of the block
ExtractLine ==
    /\ e_pc = "lines"
    /\ e_line < Len(e_lines)
    /\ LET block == e_blocks[e_block]
           out == ProcessLine(e_lines[e_line + 1], Len(block.lines), block.bbox,
                              TextPageWidth, e_median)
       IN  /\ e_pc' = IF out.raised THEN "raised" ELSE "lines"
           /\ extractable_glyphs' = IF out.raised THEN extractable_glyphs
                                    ELSE extractable_glyphs \o out.glyphs
    /\ e_line' = e_line + 1
    /\ UNCHANGED <<e_blocks, e_block, e_lines, e_median,
                   eraseVars, orderVars, textVars, callVars, convertVars>>

\* the lines of the block are exhausted
LeaveBlock ==
    /\ e_pc = "lines"
    /\ e_line = Len(e_lines)
    /\ e_pc' = "block"
    /\ UNCHANGED <<e_blocks, e_block, e_lines, e_line, e_median, extractable_glyphs,
                   eraseVars, orderVars, textVars, callVars, convertVars>>

\* line 400: return extractable_glyphs
FinishExtract ==
    /\ e_pc = "block"
    /\ e_block = Len(e_blocks)
    /\ e_pc' = "done"
    /\ UNCHANGED <<e_blocks, e_block, e_lines, e_line, e_median, extractable_glyphs,
                   eraseVars, orderVars, textVars, callVars, convertVars>>

SpecExtract == InitExtract /\ [][StartExtract \/ EnterBlock \/ ExtractLine \/ LeaveBlock \/ FinishExtract]_vars

(***************************************************************************)
(* SpecSpacers: the two places that put spacer tokens into a text: a call  *)
(* of _rebuild_text_with_spacing, or one call of                           *)
(* extract_extractable_glyphs.                                             *)
(***************************************************************************)
SpecSpacers == (InitSpacing \/ InitExtract) /\ [][CallRebuildTextWithSpacing \/ CallRebuildTextAgain \/ StartExtract \/ EnterBlock \/ ExtractLine \/ LeaveBlock \/ FinishExtract]_vars

(***************************************************************************)
(* SpecCalls: one call of a span heuristic on arguments drawn from the     *)
(* lists below.                                                            *)
(***************************************************************************)
MaxTiny == 4
MaxTail == 3
\* the characters handed to _compute_span_spacing: 5 pt wide letters with up
\* to MaxTiny gaps of 0, 0.05 or 0.2 pt followed by up to MaxTail gaps of -1,
\* 1, 6 or 7 pt; the second character may be a space character
SpacingChars ==
    LET tails == UNION {[1..n -> {-100, 100, 600, 700}] : n \in 0..MaxTail}
        gap_lists == {Repeat(<<tiny>>, t) \o tail :
                         tiny \in {0, 5, 20}, t \in 0..MaxTiny, tail \in tails}
        WithSpace(chars) == IF Len(chars) < 2 THEN chars ELSE [chars EXCEPT ![2].c = " "]
    IN  {CharsWithGaps(gaps) : gaps \in gap_lists}
        \cup {WithSpace(CharsWithGaps(gaps)) : gaps \in gap_lists}

MaxTitleSpans == 3
\* the lines handed to _is_title_line: up to MaxTitleSpans spans, each with a
\* text or with one character
TitleLines ==
    LET texts == { <<"a">>, <<"B">>, <<"7">>, <<"i", "v", ".">>, <<"v", ".">>,
                   <<"U00E9">>, NBSP_TOKEN, <<"a", " ", "b">>, <<>> }
        spans == {RawSpan(1200, Helv, 0, Nil, text, Nil) : text \in texts}
                 \cup {RawSpan(1200, Helv, 0, <<Char("x", <<1000, 10000, 1500, 11200>>)>>,
                               <<"7">>, Nil)}
    IN  {RawLine(Nil, line_spans) :
            line_spans \in UNION {[1..n -> spans] : n \in 0..MaxTitleSpans}}

\* the arguments of _is_dropcap_candidate: page median 12 pt (or 0), the
\* block's left edge at 50 pt
DropcapArgs ==
    [fn : {"_is_dropcap_candidate"},
     text : {<<"D">>, <<"D", "o">>, NBSP_TOKEN \o <<"D", " ">>},
     font_size : {2800, 2900, 3600},
     bbox : {Nil} \cup {<<x0, 10000, x0 + w, 10000 + h>> :
                           x0 \in {4000, 5000, 5600, 5700}, w \in {0, 1000, 3000},
                           h \in {0, 2300, 2400, 3600}},
     median_font_size : {0, 1200},
     font_name : {<<"Helvetica">>, <<"DropCaps">>},
     block_bbox : {Nil, <<5000, 10000, 55000, 54000>>}]

InitCalls ==
    /\ call_pc = "called"
    /\ \/ call_args \in [fn : {"_compute_span_spacing"}, chars : SpacingChars,
                         font_size : {1200}, is_letter_spaced : BOOLEAN]
       \/ call_args \in [fn : {"_is_title_line"}, line : TitleLines]
       \/ call_args \in DropcapArgs
    /\ call_result = Nil
    /\ IdleExcept({"call"})

\* lines 779-829
CallComputeSpanSpacing ==
    /\ call_pc = "called"
    /\ call_args.fn = "_compute_span_spacing"
    /\ call_pc' = "returned"
    /\ call_result' = ComputeSpanSpacing(call_args.chars, call_args.font_size,
                                         call_args.is_letter_spaced)
    /\ UNCHANGED <<call_args, eraseVars, orderVars, textVars, extractVars, convertVars>>

\* lines 650-675
CallIsTitleLine ==
    /\ call_pc = "called"
    /\ call_args.fn = "_is_title_line"
    /\ call_pc' = "returned"
    /\ call_result' = IsTitleLine(call_args.line)
    /\ UNCHANGED <<call_args, eraseVars, orderVars, textVars, extractVars, convertVars>>

\* lines 604-628
CallIsDropcapCandidate ==
    /\ call_pc = "called"
    /\ call_args.fn = "_is_dropcap_candidate"
    /\ call_pc' = "returned"
    /\ call_result' = IsDropcapCandidate(call_args.text, call_args.font_size,
                                         call_args.bbox, call_args.median_font_size,
                                         call_args.font_name, call_args.block_bbox)
    /\ UNCHANGED <<call_args, eraseVars, orderVars, textVars, extractVars, convertVars>>

SpecCalls ==
    InitCalls /\ [][CallComputeSpanSpacing \/ CallIsTitleLine \/ CallIsDropcapCandidate]_vars

(***************************************************************************)
(* _generate_font_face_css.  The font handler and the font fixer are       *)
(* collaborators: "o" says what each of their calls gives on this font,    *)
(* "-" for a call that is not made.  The declaration returned is Nil for   *)
(* the empty string and Some([families, format]) otherwise.                *)
(***************************************************************************)
\* lines 1317-1545, the body of the outer "try": the value returned, or
\* "raised" when an exception leaves the body
FontFaceCssBody(font_name, o) ==
    LET normalized_name == NormalizeFontName(font_name)
        Returns(css) == [css |-> css, raised |-> FALSE]
        \* lines 1518-1543: one declaration, and the alias when the names differ
        Declaration(format) ==
            Returns(Some([families |-> IF normalized_name # font_name
                                       THEN <<font_name, normalized_name>>
                                       ELSE <<font_name>>,
                          format |-> format]))
        \* lines 1401-1444: the sub-font is converted, repaired if it has to be
        FromSubFont ==
            IF o.woff_sub = "woff" THEN Declaration("woff")
            ELSE IF o.woff_sub = "unicode"
            THEN IF o.fix_sub = "bytes"
                 THEN Declaration(IF o.woff_fixed_sub = "woff" THEN "woff" ELSE "truetype")
                 ELSE Returns(Nil)
            ELSE Returns(Nil)
        \* lines 1386-1512: the CID font; "except Exception" of line 1509
        FromCid ==
            LET subfont_data == IF o.fontforge \in {"bytes", "small"} THEN o.fontforge
                                ELSE o.extract
            IN  IF o.fontforge = "raise" \/ subfont_data # "bytes" THEN Returns(Nil)
                ELSE FromSubFont
        \* lines 1371-1385, 1514-1516
        FromHeader(unicode_fix_failed) ==
            IF o.header = "short" THEN Returns(Nil)
            ELSE IF o.header = "sfnt"
            THEN IF unicode_fix_failed THEN Returns(Nil) ELSE Declaration("truetype")
            ELSE FromCid
    IN  \* lines 1339-1368
        IF o.woff = "woff" THEN Declaration("woff")
        ELSE IF o.woff = "unicode"
        THEN IF o.fix = "raise" THEN [css |-> Nil, raised |-> TRUE]
             ELSE IF o.fix = "none" THEN FromHeader(TRUE)
             ELSE IF o.woff_fixed = "woff" THEN Declaration("woff")
             ELSE IF o.woff_fixed = "raise" THEN Declaration("truetype")
             ELSE FromHeader(FALSE)
        ELSE FromHeader(FALSE)

\* the mutant of GenerateFontFaceCss: without the outer "except Exception"
GenerateFontFaceCssUnguarded(font_name, o) == FontFaceCssBody(font_name, o)

\* _generate_font_face_css (lines 1306-1548): "except Exception" of line 1546
\* returns the empty string
GenerateFontFaceCss(font_name, o) ==
    LET body == FontFaceCssBody(font_name, o)
    IN  IF body.raised THEN [css |-> Nil, raised |-> FALSE] ELSE body

\* what the collaborators may give, call by call in the order of the code
FontOutcomes ==
    LET U == "-"
        SubFont == {<<"woff", U, U>>, <<"empty", U, U>>, <<"other", U, U>>,
                    <<"unicode", "raise", U>>, <<"unicode", "none", U>>}
                   \cup {<<"unicode", "bytes", w>> : w \in {"woff", "empty", "raise"}}
        Cid == {<<"raise", U, U, U, U>>, <<"small", U, U, U, U>>}
               \cup {<<"bytes", U>> \o s : s \in SubFont}
               \cup {<<"none", e, U, U, U>> : e \in {"raise", "none", "small"}}
               \cup {<<"none", "bytes">> \o s : s \in SubFont}
        Header == {<<"short", U, U, U, U, U>>, <<"sfnt", U, U, U, U, U>>}
                  \cup {<<"cid">> \o c : c \in Cid}
        Calls == {<<"woff", U, U, U, U, U, U, U, U>>,
                  <<"unicode", "raise", U, U, U, U, U, U, U>>}
                 \cup {<<w, U, U>> \o h : w \in {"empty", "not_truetype", "other"}, h \in Header}
                 \cup {<<"unicode", "none", U>> \o h : h \in Header}
                 \cup {<<"unicode", "bytes", w, U, U, U, U, U, U>> : w \in {"woff", "raise"}}
                 \cup {<<"unicode", "bytes", "empty">> \o h : h \in Header}
    IN  {[woff |-> c[1], fix |-> c[2], woff_fixed |-> c[3], header |-> c[4],
          fontforge |-> c[5], extract |-> c[6], woff_sub |-> c[7], fix_sub |-> c[8],
          woff_fixed_sub |-> c[9]] : c \in Calls}

(***************************************************************************)
(* convert: the fonts, then the pages one after the other, then the file.  *)
(* The pages are PageW x PageH points.                                     *)
(***************************************************************************)
\* lines 88-398: the lines of the blocks from line i of block b on; the list
\* of spans, or "raised" when line 373 ends the call
RECURSIVE ExtractFrom(_, _, _, _, _)
ExtractFrom(blocks, b, i, page_width, median_font_size) ==
    LET \* an exception in one line ends the call; otherwise the spans of the
        \* later lines are appended after its own
        Then(one, rest) ==
            IF one.raised THEN [glyphs |-> <<>>, raised |-> TRUE]
            ELSE [glyphs |-> one.glyphs \o rest.glyphs, raised |-> rest.raised]
    IN  IF b > Len(blocks) THEN [glyphs |-> <<>>, raised |-> FALSE]
        ELSE IF blocks[b].lines = Nil
        THEN ExtractFrom(blocks, b + 1, 1, page_width, median_font_size)
        ELSE IF i > Len(LinesToProcess(blocks[b].lines))
        THEN ExtractFrom(blocks, b + 1, 1, page_width, median_font_size)
        ELSE Then(ProcessLine(LinesToProcess(blocks[b].lines)[i], Len(blocks[b].lines),
                              blocks[b].bbox, page_width, median_font_size),
                  ExtractFrom(blocks, b, i + 1, page_width, median_font_size))

\* extract_extractable_glyphs (lines 52-400) on the blocks of a page
ExtractExtractableGlyphs(blocks, page_width) ==
    ExtractFrom(blocks, 1, 1, page_width, MedianFontSize(blocks))

MaxPages == 2

\* the documents: up to MaxPages pages, each the blocks of its text and the
\* image its rasterization gives ("unrenderable": get_pixmap raises)
InitConvert ==
    /\ c_pc = "open"
    /\ LET Block(lines) == [lines |-> lines, bbox |-> <<100, 100, 1100, 700>>]
           Page(lines, raster) == [blocks |-> <<Block(lines)>>, raster |-> raster]
           Body(text, y) == TextLine(text, <<600, y, 1000, y + 200>>, 200)
           ConvertPages ==
               { \* a CJK run on the first line, starting at x = 3 pt
                 Page(<<TextLine(<<"U4E2D">>, <<300, 100, 500, 300>>, 200)>>, "grey"),
                 \* a drop cap over artwork and two lines of body text, the first
                 \* an ASCII run that ends at x = 10 pt
                 Page(<<TextLine(<<"D">>, <<100, 100, 500, 500>>, 480),
                        Body(<<"o", "n">>, 100), Body(<<"U6587">>, 400)>>, "art"),
                 \* a second span without bbox after one of another colour
                 Page(<<RawLine(<<100, 100, 600, 300>>,
                                <<RawSpan(200, Helv, 0, Nil, <<"r">>, <<100, 100, 300, 300>>),
                                  RawSpan(200, Helv, 128, Nil, <<"s">>, Nil)>>)>>, "blank"),
                 \* a line that has no bbox, and neither has its span
                 Page(<<Body(<<"a">>, 100), Body(<<"b">>, 300), Body(<<"c">>, 500),
                        RawLine(Nil, <<RawSpan(200, Helv, 0, Nil, <<"d">>, Nil)>>)>>, "blank"),
                 \* a page the rasterizer fails on
                 Page(<<TextLine(<<"a", "b">>, <<100, 100, 600, 300>>, 200)>>, "unrenderable") }
       IN  c_doc \in [fonts : {<<>>, <<Helv>>, <<Helv, <<"DropCaps">>>>},
            pages : UNION {[1..n -> ConvertPages] : n \in 1..MaxPages}]
    /\ fonts_css = <<>>
    /\ page_num = 0
    /\ html_parts = <<>>
    /\ c_log = <<>>
    /\ output_file = Nil
    /\ r_pc = "idle" /\ r_dpi \in Dpis /\ r_raster = None /\ bg_image = <<>>
    /\ r_glyphs = <<>> /\ filtered_glyphs = <<>> /\ r_rects = <<>>
    /\ IdleExcept({"convert", "erase"})

\* lines 1617-1623: fitz.open and _extract_all_fonts; c_doc.fonts is fonts_dict
OpenDocument ==
    /\ c_pc = "open"
    /\ c_pc' = IF c_doc.fonts = <<>> THEN "extract" ELSE "fonts"
    /\ UNCHANGED <<c_doc, fonts_css, page_num, html_parts, c_log, output_file,
                   eraseVars, orderVars, textVars, callVars, extractVars>>

\* lines 1626-1632: the next font of fonts_dict
GenerateNextFontCss ==
    /\ c_pc = "fonts"
    /\ \E o \in FontOutcomes :
        LET font_name == c_doc.fonts[Len(fonts_css) + 1]
            font_css == GenerateFontFaceCss(font_name, o)
        IN  /\ c_log' = Append(c_log, [page |-> 0, stage |-> "font",
                                       ok |-> ~font_css.raised])
            /\ IF font_css.raised
               THEN c_pc' = "raised" /\ UNCHANGED fonts_css
               ELSE /\ fonts_css' = Append(fonts_css,
                                           [font_name |-> font_name, css |-> font_css.css])
                    /\ c_pc' = IF Len(fonts_css) + 1 = Len(c_doc.fonts)
                               THEN "extract" ELSE "fonts"
    /\ UNCHANGED <<c_doc, page_num, html_parts, output_file,
                   eraseVars, orderVars, textVars, callVars, extractVars>>

\* the mutant of ConvertExtract: a page whose extraction fails is left empty
\* and the run goes on
ConvertExtractSkippingFailure ==
    /\ c_pc = "extract"
    /\ page_num < Len(c_doc.pages)
    /\ \E out \in {ExtractExtractableGlyphs(c_doc.pages[page_num + 1].blocks, PageWidth)} :
           /\ c_log' = Append(c_log, [page |-> page_num + 1, stage |-> "extract",
                                      ok |-> ~out.raised])
           /\ c_pc' = "erase"
           /\ extractable_glyphs' = out.glyphs
    /\ UNCHANGED <<c_doc, fonts_css, page_num, html_parts, output_file,
                   e_pc, e_blocks, e_block, e_lines, e_line, e_median,
                   eraseVars, orderVars, textVars, callVars>>

\* lines 1705-1714: page = doc[page_num] and stage 1
ConvertExtract ==
    /\ c_pc = "extract"
    /\ page_num < Len(c_doc.pages)
    /\ \E out \in {ExtractExtractableGlyphs(c_doc.pages[page_num + 1].blocks, PageWidth)} :
           /\ c_log' = Append(c_log, [page |-> page_num + 1, stage |-> "extract",
                                      ok |-> ~out.raised])
           /\ IF out.raised
              THEN c_pc' = "raised" /\ UNCHANGED extractable_glyphs
              ELSE c_pc' = "erase" /\ extractable_glyphs' = out.glyphs
    /\ UNCHANGED <<c_doc, fonts_css, page_num, html_parts, output_file,
                   e_pc, e_blocks, e_block, e_lines, e_line, e_median,
                   eraseVars, orderVars, textVars, callVars>>

\* lines 1717-1720: stage 2; get_pixmap (line 944) may raise, and so does
\* line 962 on a glyph whose bbox is None
ConvertErase ==
    /\ c_pc = "erase"
    /\ LET page == c_doc.pages[page_num + 1]
           raised == \/ page.raster = "unrenderable"
                     \/ \E i \in 1..Len(extractable_glyphs) : extractable_glyphs[i].bbox = Nil
       IN  /\ c_log' = Append(c_log, [page |-> page_num + 1, stage |-> "erase",
                                      ok |-> ~raised])
           /\ IF raised
              THEN /\ c_pc' = "raised"
                   /\ UNCHANGED <<r_pc, r_raster, bg_image, r_glyphs, filtered_glyphs,
                                  r_rects, t_pc>>
              ELSE /\ c_pc' = "text"
                   /\ r_pc' = "done"
                   /\ r_raster' = page.raster
                   /\ r_glyphs' = extractable_glyphs
                   /\ \E out \in {RenderBackgroundWithoutGlyphs(page.raster, r_dpi,
                                                                extractable_glyphs)} :
                          /\ bg_image' = out.bg
                          /\ filtered_glyphs' = out.filtered
                          /\ r_rects' = out.rects
                   /\ t_pc' = "start"
    /\ UNCHANGED <<c_doc, fonts_css, page_num, html_parts, output_file, r_dpi,
                   t_glyphs, line_trackers, text_html, t_calls,
                   orderVars, callVars, extractVars>>

\* the mutant of ConvertTextLayer: the page container is put first
ConvertTextLayerPrepending ==
    /\ c_pc = "text"
    /\ t_pc = "emitting"
    /\ t_glyphs' = [k \in 1..Len(filtered_glyphs) |-> extractable_glyphs[filtered_glyphs[k]]]
    /\ \E out \in {EmitFrom([trackers |-> line_trackers, html |-> text_html,
                              calls |-> <<>>], t_glyphs', 1)} :
           /\ line_trackers' = out.trackers
           /\ text_html' = out.html
           /\ t_calls' = out.calls
           /\ html_parts' = <<[bg |-> bg_image, text |-> out.html]>> \o html_parts
    /\ t_pc' = "done"
    /\ c_log' = Append(c_log, [page |-> page_num + 1, stage |-> "text", ok |-> TRUE])
    /\ page_num' = page_num + 1
    /\ c_pc' = "extract"
    /\ UNCHANGED <<c_doc, fonts_css, output_file, eraseVars, orderVars, callVars, extractVars>>

\* lines 1723-1744: stage 3 on filtered_glyphs, after lines 1091-1093, and
\* the page container appended to html_parts
ConvertTextLayer ==
    /\ c_pc = "text"
    /\ t_pc = "emitting"
    /\ t_glyphs' = [k \in 1..Len(filtered_glyphs) |-> extractable_glyphs[filtered_glyphs[k]]]
    /\ \E out \in {EmitFrom([trackers |-> line_trackers, html |-> text_html,
                              calls |-> <<>>], t_glyphs', 1)} :
           /\ line_trackers' = out.trackers
           /\ text_html' = out.html
           /\ t_calls' = out.calls
           /\ html_parts' = Append(html_parts, [bg |-> bg_image, text |-> out.html])
    /\ t_pc' = "done"
    /\ c_log' = Append(c_log, [page |-> page_num + 1, stage |-> "text", ok |-> TRUE])
    /\ page_num' = page_num + 1
    /\ c_pc' = "extract"
    /\ UNCHANGED <<c_doc, fonts_css, output_file, eraseVars, orderVars, callVars, extractVars>>

\* lines 1746-1794: after the last page, the file is written
WriteOutput ==
    /\ c_pc = "extract"
    /\ page_num = Len(c_doc.pages)
    /\ output_file' = Some([fonts_css |-> SelectSeq(fonts_css, LAMBDA f : f.css # Nil),
                            pages |-> html_parts])
    /\ c_pc' = "done"
    /\ UNCHANGED <<c_doc, fonts_css, page_num, html_parts, c_log,
                   eraseVars, orderVars, textVars, callVars, extractVars>>

SpecConvert ==
    InitConvert /\ [][OpenDocument \/ GenerateNextFontCss \/ ConvertExtract \/ ConvertErase
                      \/ BeginTextLayer \/ ConvertTextLayer \/ WriteOutput]_vars

(***************************************************************************)
(* Claims about the erase stage.                                           *)
(***************************************************************************)
\* floor(n / d) for d > 0
FloorDiv(n, d) == IF n >= 0 THEN n \div d ELSE -(((-n) + d - 1) \div d)
\* ceil(n / d) for d > 0
CeilDiv(n, d) == -FloorDiv(-n, d)

\* The pixel columns (or rows) that the scaled interval [c0, c1] of the page,
\* expanded by pad pixels on both sides, touches: first and last pixel index.
FirstTouched(c0, dpi, pad) == FloorDiv(c0 * dpi - pad * 7200, 7200)
LastTouched(c1, dpi, pad) == CeilDiv(c1 * dpi + pad * 7200, 7200) - 1

\* rec.box covers every pixel the expanded scaled bbox touches
CoversExpanded(rec, bbox, dpi) ==
    LET pad == Padding(dpi)
    IN  /\ rec.box[1] <= FirstTouched(bbox[1], dpi, pad)
        /\ rec.box[2] <= FirstTouched(bbox[2], dpi, pad)
        /\ LastTouched(bbox[3], dpi, pad) <= rec.box[3]
        /\ LastTouched(bbox[4], dpi, pad) <= rec.box[4]

\* rec.box covers every pixel of the image the expanded scaled bbox touches
CoversExpandedInImage(rec, bbox, dpi) ==
    LET pad == Padding(dpi)
    IN  /\ rec.box[1] <= Max(0, FirstTouched(bbox[1], dpi, pad))
        /\ rec.box[2] <= Max(0, FirstTouched(bbox[2], dpi, pad))
        /\ Min(ImageWidth(dpi) - 1, LastTouched(bbox[3], dpi, pad)) <= rec.box[3]
        /\ Min(ImageHeight(dpi) - 1, LastTouched(bbox[4], dpi, pad)) <= rec.box[4]

\* C1 as stated: the rectangle written for an accepted span contains the span's
\* scaled bbox expanded by the pad on all four sides, wherever the bbox lies.
C1_RectContainsPaddedBBox ==
    \A k \in 1..Len(r_rects) :
        CoversExpanded(r_rects[k], r_glyphs[r_rects[k].idx].bbox, r_dpi)

\* C1 amended: the rectangle written for an accepted span contains the part of
\* the padded scaled bbox that lies inside the image (the rectangle is clamped
\* to the image), and right after the write every such pixel holds the fill.
C1_RectContainsPaddedBBoxInImage ==
    /\ \A k \in 1..Len(r_rects) :
        CoversExpandedInImage(r_rects[k], r_glyphs[r_rects[k].idx].bbox, r_dpi)
    /\ Len(r_rects) > 0 =>
        LET rec == r_rects[Len(r_rects)]
            bbox == r_glyphs[rec.idx].bbox
            pad == Padding(r_dpi)
        IN  \A p \in DOMAIN bg_image :
                ( /\ FirstTouched(bbox[1], r_dpi, pad) <= p[1]
                  /\ p[1] <= LastTouched(bbox[3], r_dpi, pad)
                  /\ FirstTouched(bbox[2], r_dpi, pad) <= p[2]
                  /\ p[2] <= LastTouched(bbox[4], r_dpi, pad) )
                => bg_image[p] = rec.fill

\* C1 witness: a rectangle was written for a span that crosses the left and the
\* bottom border at a zoom where scaled coordinates are fractional.
C1_Witness ==
    /\ r_dpi = 150
    /\ \E k \in 1..Len(r_rects) :
        LET bbox == r_glyphs[r_rects[k].idx].bbox
        IN  bbox[1] < 0 /\ bbox[4] > PageHeight

\* The glyph appended by a step of the erase loop, and whether the step left it out.
IsEraseStep == r_pc = "erasing" /\ Len(r_glyphs') = Len(r_glyphs) + 1
StepLeftOut ==
    /\ bg_image' = bg_image
    /\ filtered_glyphs' = filtered_glyphs
    /\ r_rects' = r_rects
StepErasedAndFiltered ==
    LET idx == Len(r_glyphs')
    IN  /\ filtered_glyphs' = Append(filtered_glyphs, idx)
        /\ Len(r_rects') = Len(r_rects) + 1
        /\ r_rects'[Len(r_rects')].idx = idx
        /\ \A p \in DOMAIN bg_image :
              LET box == r_rects'[Len(r_rects')].box
              IN  (box[1] <= p[1] /\ p[1] <= box[3] /\ box[2] <= p[2] /\ p[2] <= box[4])
                  => bg_image'[p] = r_rects'[Len(r_rects')].fill

\* The pixels sampled in the ring around a glyph: in each of the regions
\* above, below, left and right of it, every column and row at a multiple of
\* the step (a third of the region's extent, at least 1) from its first.
RingSamples(g) ==
    LET regions == SampleRegions(ImgBox(g.bbox, r_dpi), r_dpi, Expand(r_dpi))
        InGrid(v, lo, hi) == lo <= v /\ v < hi /\ (v - lo) % Max(1, (hi - lo) \div 3) = 0
    IN  {p \in DOMAIN bg_image :
            \E k \in 1..4 : /\ InGrid(p[1], regions[k][1], regions[k][3])
                            /\ InGrid(p[2], regions[k][2], regions[k][4])}
\* the samples further than 30 from the text colour, the distance being the
\* sum of the differences of the three channels
KeptSamples(g) ==
    {p \in RingSamples(g) :
        Abs(bg_image[p][1] - g.color[1]) + Abs(bg_image[p][2] - g.color[2])
            + Abs(bg_image[p][3] - g.color[3]) > 30}
NearWhite(color) == \A ch \in 1..3 : color[ch] > 240

\* C25: the fill colour of an erase rectangle is plain white for every span
\* whose colour is not near-white (not all channels > 240); for a near-white
\* span it is the channel-wise average (rounded down) of the ring samples of
\* the image being erased, without those within 30 of the text colour, and
\* plain white when no sample remains.
C25_FillIsWhiteOrRingAverage ==
    [][(IsEraseStep /\ Len(r_rects') = Len(r_rects) + 1) =>
          LET rec == r_rects'[Len(r_rects')]
              g == r_glyphs'[rec.idx]
              kept == KeptSamples(g)
          IN  rec.fill =
                 IF NearWhite(g.color) /\ kept # {}
                 THEN <<SumChannel(bg_image, kept, 1) \div Cardinality(kept),
                        SumChannel(bg_image, kept, 2) \div Cardinality(kept),
                        SumChannel(bg_image, kept, 3) \div Cardinality(kept)>>
                 ELSE White]_vars

\* rectangles were written for a near-white span filled with a colour that
\* is not white and for a span that is bright in two channels only
C25_Witness ==
    /\ \E k \in 1..Len(r_rects) :
          NearWhite(r_glyphs[r_rects[k].idx].color) /\ r_rects[k].fill # White
    /\ \E k \in 1..Len(r_rects) :
          LET color == r_glyphs[r_rects[k].idx].color
          IN  ~NearWhite(color) /\ \E ch \in 1..3 : color[ch] > 240

\* The sampled statistics of the glyph's region in the image being erased.
RegionLooksComplex(g) ==
    RatioAndVarianceHigh(bg_image, GridSamples(r_dpi, ImgBox(g.bbox, r_dpi)))
\* The clipped region holds at least 64 pixels.
RegionIsSampled(g) ==
    LET b == ImgBox(g.bbox, r_dpi)
    IN  /\ b[1] < b[3] /\ b[2] < b[4]
        /\ (Min(ImageWidth(r_dpi), b[3]) - Max(0, b[1]))
              * (Min(ImageHeight(r_dpi), b[4]) - Max(0, b[2])) >= 64

\* the text layer built from the filtered list has a node for every filtered
\* span and for no other span of the page
NodesAreOfFiltered ==
    LET sources == {filtered_glyphs[text_html[n].span] : n \in 1..Len(text_html)}
    IN  sources = {filtered_glyphs[k] : k \in 1..Len(filtered_glyphs)}

\* C2 as stated: a dropcap candidate whose region has non-white sample ratio
\* > 0.2 and variance > 300 gets no rectangle and is not filtered; every other
\* span is erased and filtered; the text layer has no node for a span left out.
C2_ComplexDropcapExcluded ==
    /\ [][IsEraseStep =>
            LET g == r_glyphs'[Len(r_glyphs')]
            IN  IF g.dropcap_candidate /\ RegionLooksComplex(g)
                THEN StepLeftOut ELSE StepErasedAndFiltered]_vars
    /\ [](r_pc = "layered" => NodesAreOfFiltered)

\* C2 amended: a dropcap candidate whose clipped region holds at least 64 pixels
\* and has non-white sample ratio > 0.2 and variance > 300 gets no rectangle and
\* is not filtered; every other span (a candidate with a smaller or a calmer
\* region, a non-candidate) is erased and filtered; and the text layer has a
\* node for exactly the filtered spans, so none for a span left out.
C2_SampledComplexDropcapExcluded ==
    /\ [][IsEraseStep =>
            LET g == r_glyphs'[Len(r_glyphs')]
            IN  IF g.dropcap_candidate /\ RegionIsSampled(g) /\ RegionLooksComplex(g)
                THEN StepLeftOut ELSE StepErasedAndFiltered]_vars
    /\ [](r_pc = "layered" => NodesAreOfFiltered)

\* C2 witness: on the checkerboard page (ratio 0.5, variance far above 300) a
\* dropcap candidate was left out while another span was erased and filtered,
\* and the text layer was built.
C2_Witness ==
    /\ r_raster = "art"
    /\ r_pc = "layered"
    /\ Len(text_html) > 0
    /\ \E i \in 1..Len(r_glyphs) :
        /\ r_glyphs[i].dropcap_candidate
        /\ \A k \in 1..Len(filtered_glyphs) : filtered_glyphs[k] # i
        /\ \A k \in 1..Len(r_rects) : r_rects[k].idx # i
    /\ Len(filtered_glyphs) > 0

\* C3: the filtered list and the rectangles written correspond 1:1: a span is
\* filtered iff exactly one rectangle was written for it (otherwise none), no
\* span is filtered twice, and the filtered list keeps the input order.
C3_FilteredMatchesRects ==
    /\ \A i \in 1..Len(r_glyphs) :
        LET n == Cardinality({k \in 1..Len(r_rects) : r_rects[k].idx = i})
            isIn == \E k \in 1..Len(filtered_glyphs) : filtered_glyphs[k] = i
        IN  (isIn <=> n = 1) /\ n <= 1
    /\ \A k \in 1..Len(filtered_glyphs) : filtered_glyphs[k] \in 1..Len(r_glyphs)
    /\ \A k, l \in 1..Len(filtered_glyphs) : k < l => filtered_glyphs[k] < filtered_glyphs[l]
    /\ \A k \in 1..Len(r_rects) : r_rects[k].idx \in 1..Len(r_glyphs)

\* C3 witness: a finished run in which the first span was left out and the
\* second was erased and filtered.
C3_Witness ==
    /\ r_pc = "done"
    /\ Len(r_glyphs) = 2
    /\ filtered_glyphs = <<2>>
    /\ Len(r_rects) = 1 /\ r_rects[1].idx = 2

\* C9 as stated: two orderings of the same spans give the same final
\* background image and the same set of filtered spans.
C9_ErasureOrderIndependent ==
    o_pc = "done" =>
        /\ o_out.bg1 = o_out.bg2
        /\ o_out.filtered1 = o_out.filtered2

\* Two pixel rectangles with inclusive corners share a pixel.
BoxesOverlap(a, b) ==
    /\ a[1] <= a[3] /\ a[2] <= a[4] /\ b[1] <= b[3] /\ b[2] <= b[4]
    /\ a[1] <= b[3] /\ b[1] <= a[3] /\ a[2] <= b[4] /\ b[2] <= a[4]

\* The rectangle written for g touches what the erase of h reads or writes: h's
\* rectangle, the ring sampled around a near-white h, the region of a dropcap
\* candidate h.
Disturbs(g, h, dpi) ==
    LET rect == EraseRect(g.bbox, dpi)
        b == ImgBox(h.bbox, dpi)
        ring == SampleRegions(b, dpi, Expand(dpi))
    IN  \/ BoxesOverlap(rect, EraseRect(h.bbox, dpi))
        \/ /\ IsWhiteText(h.color)
           /\ \E k \in 1..4 :
                BoxesOverlap(rect, <<ring[k][1], ring[k][2], ring[k][3] - 1, ring[k][4] - 1>>)
        \/ /\ h.dropcap_candidate
           /\ BoxesOverlap(rect, <<b[1], b[2], b[3] - 1, b[4] - 1>>)

SpansApart(glyphs, dpi) ==
    \A i, j \in 1..Len(glyphs) : i # j => ~Disturbs(glyphs[i], glyphs[j], dpi)

\* C9 amended: two orderings of the same spans give the same final background
\* image and the same set of filtered spans provided no span's erase rectangle
\* overlaps another span's erase rectangle, sampled ring or dropcap region.
C9_ErasureOrderIndependentWhenApart ==
    (o_pc = "done" /\ SpansApart(o_in.glyphs, o_in.dpi)) =>
        /\ o_out.bg1 = o_out.bg2
        /\ o_out.filtered1 = o_out.filtered2

\* C9 witness: two spans apart from each other were erased in both orders, one
\* of them near-white with a fill colour sampled from the image.
C9_Witness ==
    /\ o_pc = "done"
    /\ o_in.perm = <<2, 1>>
    /\ SpansApart(o_in.glyphs, o_in.dpi)
    /\ \E i \in 1..Len(o_in.glyphs) : IsWhiteText(o_in.glyphs[i].color)
    /\ \E p \in DOMAIN o_out.bg1 : o_out.bg1[p] \notin {White, Black, Navy, Grey, Cream}

(***************************************************************************)
(* Claims about the text layer's LineTracker.                              *)
(***************************************************************************)
IsScriptClass(type) == type \in {"ascii", "cjk"}

\* the calls before call k that met the same tracker entry
EarlierOnLine(k) ==
    {j \in 1..(k - 1) : t_calls[j].at # 0 /\ t_calls[j].at = t_calls[k].at}

\* the right extent a recorded run occupies: its left edge plus the larger of
\* its bbox width and its estimated text width
OccupiedRight(call) ==
    call.bbox[1] + Max(call.bbox[3] - call.bbox[1],
                       EstimateTextWidth(call.text, call.font_size))

ShiftOf(call) == call.bbox[1] - call.run_bbox[1]

\* C4 as stated: a run of one script class that follows a run of the other
\* class on the same visual line and starts at or before that run's x1 is
\* shifted right by exactly (that x1 - its left) + minGap.
C4_ShiftFromPrecedingX1 ==
    \A k \in 1..Len(t_calls) :
        LET call == t_calls[k]
            earlier == EarlierOnLine(k)
        IN  (call.at # 0 /\ earlier # {}) =>
                LET preceding == t_calls[SetMax(earlier)]
                IN  ( /\ IsScriptClass(TextScriptType(call.text))
                      /\ IsScriptClass(TextScriptType(preceding.text))
                      /\ TextScriptType(call.text) # TextScriptType(preceding.text)
                      /\ call.run_bbox[1] <= preceding.bbox[3] )
                    => ShiftOf(call) = (preceding.bbox[3] - call.run_bbox[1])
                                        + Max(50, (call.font_size * 8) \div 100)

\* C4 (amended): a run handed to the LineTracker whose script class (ASCII or
\* CJK) differs from the class last recorded on its visual line, and which
\* starts at or before the line's recorded right edge, is shifted right by
\* exactly (rightEdge - its left) + minGap with minGap = max(0.5, 0.08 x font
\* size), keeping its width; the recorded right edge is the largest, over the
\* runs recorded on the line so far, of left + max(bbox width, estimated text
\* width), as long as none of them reaches x = 0 exactly (an edge of 0 is
\* taken for no edge when the next run is recorded).
C4_ShiftFromRecordedRightEdge ==
    \A k \in 1..Len(t_calls) :
        LET call == t_calls[k]
            earlier == EarlierOnLine(k)
        IN  call.at # 0 =>
              /\ (earlier = {}) = (call.right_edge = Nil)
              /\ (earlier # {} /\ \A j \in earlier : OccupiedRight(t_calls[j]) # 0) =>
                    call.right_edge =
                        Some(SetMax({OccupiedRight(t_calls[j]) : j \in earlier}))
              /\ ( /\ IsScriptClass(TextScriptType(call.text))
                   /\ IsScriptClass(call.last_type)
                   /\ TextScriptType(call.text) # call.last_type
                   /\ call.right_edge # Nil
                   /\ call.run_bbox[1] <= call.right_edge[1] )
                 => /\ ShiftOf(call) = (call.right_edge[1] - call.run_bbox[1])
                                        + Max(50, (call.font_size * 8) \div 100)
                    /\ call.bbox[3] - call.bbox[1] = call.run_bbox[3] - call.run_bbox[1]
                    /\ call.bbox[2] = call.run_bbox[2] /\ call.bbox[4] = call.run_bbox[4]

\* an ASCII run ending at x = 100 pt, then a CJK run starting at x = 95 pt on
\* the same line, moved to 100 pt + minGap (0.96 pt at 12 pt)
C4_Witness ==
    \E k \in 1..Len(t_calls) :
        /\ t_calls[k].text = <<"U4E2D", "U6587">>
        /\ t_calls[k].run_bbox[1] = 9500
        /\ t_calls[k].last_type = "ascii"
        /\ t_calls[k].right_edge = Some(10000)
        /\ t_calls[k].bbox[1] = 10096
        /\ \E n \in 1..Len(text_html) :
              text_html[n].span = t_calls[k].span /\ text_html[n].node.left = 10096

(***************************************************************************)
(* Claims about _span_caps_flags.                                          *)
(***************************************************************************)
\* the whitespace-delimited tokens of a text, a spacer placeholder counting as
\* a space
TokensOf(text) == Split(Normalized(text))
SingleLetterTokens(text) ==
    {i \in 1..Len(TokensOf(text)) :
        Len(TokensOf(text)[i]) = 1
        /\ TokensOf(text)[i][1] \in UpperLetters \cup LowerLetters}
IsSpacedLowercaseRun(text) ==
    /\ Len(TokensOf(text)) >= 4
    /\ 10 * Cardinality(SingleLetterTokens(text)) >= 7 * Len(TokensOf(text))
    /\ \E i \in SingleLetterTokens(text) : TokensOf(text)[i][1] \in LowerLetters

\* the text holds a lowercase letter somewhere, in whatever token
ContainsLowercase(text) == \E i \in 1..Len(text) : text[i] \in LowerLetters
IsSpacedRunOfLowercaseText(text) ==
    /\ Len(TokensOf(text)) >= 4
    /\ 10 * Cardinality(SingleLetterTokens(text)) >= 7 * Len(TokensOf(text))
    /\ ContainsLowercase(text)

\* C6 as stated: every text with at least 4 whitespace-delimited tokens, at
\* least 70% of them single ASCII letters, that contains at least one
\* lowercase letter gets force_uppercase = apply_small_caps =
\* is_letter_spaced = true; no other text gets apply_small_caps or
\* is_letter_spaced.  "B B B iv." refutes it: its only lowercase letters are
\* in the token "iv.", and all three flags stay false.
C6_CapsFlagsOfLowercaseText ==
    call_pc = "returned" =>
        /\ IsSpacedRunOfLowercaseText(call_args.text) =>
              /\ call_result.force_uppercase
              /\ call_result.apply_small_caps
              /\ call_result.is_letter_spaced
        /\ ~IsSpacedRunOfLowercaseText(call_args.text) =>
              /\ ~call_result.apply_small_caps
              /\ ~call_result.is_letter_spaced

\* C6, amended: a text with at least 4 whitespace-delimited tokens, at least
\* 70% of them single ASCII letters and at least one of those single-letter
\* tokens lowercase, gets force_uppercase = apply_small_caps =
\* is_letter_spaced = true; no other text gets apply_small_caps or
\* is_letter_spaced.
C6_CapsFlagsOfSpacedRun ==
    call_pc = "returned" =>
        /\ IsSpacedLowercaseRun(call_args.text) =>
              /\ call_result.force_uppercase
              /\ call_result.apply_small_caps
              /\ call_result.is_letter_spaced
        /\ ~IsSpacedLowercaseRun(call_args.text) =>
              /\ ~call_result.apply_small_caps
              /\ ~call_result.is_letter_spaced

\* "a B a B iv.": five tokens, four of them single letters, flags all true
C6_Witness ==
    /\ call_pc = "returned"
    /\ call_args.text = <<"a", " ", "B", " ", "a", " ", "B", " ", "i", "v", ".">>
    /\ call_result = [force_uppercase |-> TRUE, apply_small_caps |-> TRUE,
                      is_letter_spaced |-> TRUE]

(***************************************************************************)
(* Claims about _should_center_span.                                       *)
(***************************************************************************)
ArgLineWidth == call_args.line_bbox[3] - call_args.line_bbox[1]
ArgTokens == Split(Strip(Normalized(call_args.text)))
ArgCharCount == Len(Strip(Normalized(call_args.text)))
ArgSingleLetters ==
    Cardinality({i \in 1..Len(ArgTokens) :
                    Len(ArgTokens[i]) = 1
                    /\ ArgTokens[i][1] \in UpperLetters \cup LowerLetters})

\* the conditions C8 lists
ListedCenterConditions ==
    /\ call_args.block_line_count <= 3
    /\ 100 * ArgLineWidth <= 85 * call_args.page_width
    /\ 100 * Abs(call_args.line_bbox[1] + call_args.line_bbox[3] - call_args.page_width)
          <= 16 * call_args.page_width
    /\ \/ Len(ArgTokens) >= 4 /\ 10 * ArgSingleLetters >= 7 * Len(ArgTokens)
       \/ /\ Len(ArgTokens) <= 6
          /\ ArgCharCount <= 40
          /\ \/ 100 * call_args.font_size >= 112 * call_args.median_font_size
             \/ 100 * ArgLineWidth <= 55 * call_args.page_width

\* C8 as stated: for a line with a bbox, align_center is true exactly when the
\* block has at most 3 lines, the line is at most 85% of the page wide, its
\* centre is within 8% of the page width of the page centre, and the text is a
\* letter-spaced run or a short title that is large or narrow.
C8_CenterExactlyWhenListed ==
    (call_pc = "returned" /\ call_args.line_bbox # Nil) =>
        (call_result <=> ListedCenterConditions)

\* C8 (amended): align_center is true exactly when the text is not blank, the
\* line has a bbox of positive width, the page width is not 0, and the listed
\* conditions hold with "font size >= 1.12 x median" counting only for a
\* median that is not 0; a line 0.9 x the page width wide is never centred.
C8_CenterExactlyWhenListedAndWellFormed ==
    call_pc = "returned" =>
        /\ call_result <=>
              /\ ArgCharCount > 0
              /\ call_args.line_bbox # Nil
              /\ call_args.page_width # 0
              /\ ArgLineWidth > 0
              /\ call_args.block_line_count <= 3
              /\ 100 * ArgLineWidth <= 85 * call_args.page_width
              /\ 100 * Abs(call_args.line_bbox[1] + call_args.line_bbox[3]
                           - call_args.page_width) <= 16 * call_args.page_width
              /\ \/ Len(ArgTokens) >= 4 /\ 10 * ArgSingleLetters >= 7 * Len(ArgTokens)
                 \/ /\ Len(ArgTokens) <= 6
                    /\ ArgCharCount <= 40
                    /\ \/ /\ call_args.median_font_size # 0
                          /\ 100 * call_args.font_size >= 112 * call_args.median_font_size
                       \/ 100 * ArgLineWidth <= 55 * call_args.page_width
        /\ (call_args.line_bbox # Nil /\ call_args.page_width # 0
            /\ 10 * ArgLineWidth = 9 * call_args.page_width) => ~call_result

\* a large short title on a 400 pt line is centred
C8_Witness ==
    /\ call_pc = "returned"
    /\ call_args.text = <<"T", "i", "t", "l", "e">>
    /\ call_args.line_bbox = <<10000, 10000, 50000, 11200>>
    /\ call_args.font_size = 1500 /\ call_args.median_font_size = 1200
    /\ call_args.block_line_count = 1
    /\ call_result = TRUE

(***************************************************************************)
(* Claims about _rebuild_text_with_spacing.                                *)
(***************************************************************************)
\* C7: spacing synthesis is idempotent: run again on the characters it
\* produced (the original characters and the inserted spaces or spacers in
\* their gaps), it inserts no further space or spacer, in the letter-spaced
\* and in the other path.
C7_SpacingIdempotent ==
    call_pc = "returned" =>
        \A i \in 1..Len(call_result.again.counts) : call_result.again.counts[i] = 0

\* the first run inserted something and the second run was made
C7_Reached ==
    /\ call_pc = "returned"
    /\ Len(call_result.chars) > Len(call_args.chars)

(***************************************************************************)
(* Claims about _compute_span_spacing.                                     *)
(***************************************************************************)
\* the median as the middle element: at most half of the values lie below it
\* and more than half do not lie above it
MiddleOf(values) ==
    CHOOSE m \in {values[i] : i \in 1..Len(values)} :
        /\ Cardinality({i \in 1..Len(values) : values[i] < m}) <= Len(values) \div 2
        /\ Cardinality({i \in 1..Len(values) : values[i] <= m}) > Len(values) \div 2
\* the pairs of neighbours that both carry a bbox and are a positive gap apart
GapPairs(chars) ==
    {i \in 1..(Len(chars) - 1) :
        /\ chars[i].bbox # Nil /\ chars[i + 1].bbox # Nil
        /\ chars[i + 1].bbox[1] - chars[i].bbox[3] > 0}
GapOfPair(chars, i) == chars[i + 1].bbox[1] - chars[i].bbox[3]
\* the median of the positive gaps: the upper one of the two middle gaps
MedianGap(chars) ==
    LET pairs == GapPairs(chars)
        Below(m) == Cardinality({j \in pairs : GapOfPair(chars, j) < m})
        UpTo(m) == Cardinality({j \in pairs : GapOfPair(chars, j) <= m})
    IN  CHOOSE m \in {GapOfPair(chars, i) : i \in pairs} :
            Below(m) <= Cardinality(pairs) \div 2 /\ UpTo(m) > Cardinality(pairs) \div 2
\* the characters in order, with the unit put count[i] times after character i
RECURSIVE Woven(_, _, _, _)
Woven(chars, i, unit, count) ==
    IF i > Len(chars) THEN <<>>
    ELSE <<chars[i].c>>
         \o (IF i < Len(chars) THEN Repeat(unit, count[i]) ELSE <<>>)
         \o Woven(chars, i + 1, unit, count)
\* the text of a call of the other path: one space in each gap wider than
\* max(median * 3, font_size * 0.4) that "Free" admits, nothing when there is
\* no positive gap or the median gap is 0.5 pt or less
SpacesInWideGaps(Free(_, _)) ==
    LET chars == call_args.chars
        Space(i) ==
            IF /\ i \in GapPairs(chars)
               /\ GapOfPair(chars, i) > 3 * MedianGap(chars)
               /\ 10 * GapOfPair(chars, i) > 4 * call_args.font_size
               /\ Free(chars, i)
            THEN 1 ELSE 0
    IN  (call_pc \in {"rebuilt", "returned"} /\ ~call_args.is_letter_spaced) =>
            IF GapPairs(chars) = {} \/ MedianGap(chars) <= 50
            THEN call_result.text = <<>>
            ELSE call_result.text =
                    Woven(chars, 1, <<" ">>, [i \in 1..(Len(chars) - 1) |-> Space(i)])

\* C23: outside the letter-spaced path, exactly one space is put
\* between two adjacent characters wherever their gap exceeds
\* max(median * 3, font_size * 0.4) and neither of the two is an explicit
\* space, and nowhere else; nothing is inserted when the median gap is 0.5
\* or less.
C23_OneSpaceWhereNoExplicitSpace ==
    SpacesInWideGaps(LAMBDA chars, i : chars[i].c # " " /\ chars[i + 1].c # " ")

\* What the code does instead: exactly one space wherever the gap exceeds
\* max(median * 3, font_size * 0.4) and the character after the gap is not
\* the space character, and nowhere else: a wide gap after an explicit space
\* gets a second space.  The median is the one of the positive gaps; nothing
\* is inserted when it is 0.5 or less.
C23_OneSpaceWhereNoSpaceFollows ==
    SpacesInWideGaps(LAMBDA chars, i : chars[i + 1].c # " ")

\* a call of the other path put a space into the wide gap after an explicit
\* space
C23_Witness ==
    /\ call_pc = "rebuilt"
    /\ ~call_args.is_letter_spaced
    /\ Len(call_result.text) = Len(call_args.chars) + 1
    /\ \E i \in 1..(Len(call_args.chars) - 1) :
          /\ call_args.chars[i].c = " "
          /\ SubSeq(call_result.text, i, i + 1) = <<" ", " ">>

\* TRUE when the text is the characters in order with nothing but whole
\* units before, between and after them
RECURSIVE IsWeaving(_, _, _)
IsWeaving(text, chars, unit) ==
    IF text = <<>> THEN chars = <<>>
    ELSE IF chars # <<>> /\ Head(text) = Head(chars).c
    THEN IsWeaving(Tail(text), Tail(chars), unit)
    ELSE /\ Len(text) >= Len(unit)
         /\ SubSeq(text, 1, Len(unit)) = unit
         /\ IsWeaving(SubSeq(text, Len(unit) + 1, Len(text)), chars, unit)

\* C29: spacing synthesis only adds whitespace: a result that is not empty is
\* the input characters in order with nothing but spaces (other path) or
\* spacers (letter-spaced path) put between them, so that deleting the
\* inserted ones gives back the input; in the first run and in the run on the
\* characters the first one produced.
C29_SynthesisOnlyAddsWhitespace ==
    LET unit == IF call_args.is_letter_spaced THEN NBSP_TOKEN ELSE <<" ">>
    IN  /\ (call_pc \in {"rebuilt", "returned"} /\ call_result.text # <<>>) =>
              IsWeaving(call_result.text, call_args.chars, unit)
        /\ (call_pc = "returned" /\ call_result.again.text # <<>>) =>
              IsWeaving(call_result.again.text, call_result.chars, unit)

\* a call of the letter-spaced path whose result holds spacers and whose
\* input holds an explicit space
C29_Witness ==
    /\ call_pc = "rebuilt"
    /\ call_args.is_letter_spaced
    /\ \E i \in 1..Len(call_args.chars) : call_args.chars[i].c = " "
    /\ Len(call_result.text) >= Len(call_args.chars) + 2 * Len(NBSP_TOKEN)

\* round(gap / unit) clamped to 2..6, the unit being max(font_size * 0.3, 1.0)
ClampedSpacers(gap, font_size) ==
    Max(2, Min(6, RoundHalfEven(10 * gap, Max(3 * font_size, 1000))))
\* the lengths of the runs of spacer tokens of a text, in order
RECURSIVE SpacerRuns(_, _)
SpacerRuns(text, run) ==
    IF Len(text) >= Len(NBSP_TOKEN) /\ SubSeq(text, 1, Len(NBSP_TOKEN)) = NBSP_TOKEN
    THEN SpacerRuns(SubSeq(text, Len(NBSP_TOKEN) + 1, Len(text)), run + 1)
    ELSE (IF run > 0 THEN <<run>> ELSE <<>>)
         \o (IF text = <<>> THEN <<>> ELSE SpacerRuns(Tail(text), 0))
\* the text of a call of the letter-spaced path: ClampedSpacers spacers in
\* each gap wider than max(font_size * 0.6, median * 4) that "Free" admits,
\* nothing when there is no positive gap
SpacersInWideGaps(Free(_, _)) ==
    LET chars == call_args.chars
        Spacers(i) ==
            IF /\ i \in GapPairs(chars)
               /\ 10 * GapOfPair(chars, i) > 6 * call_args.font_size
               /\ GapOfPair(chars, i) > 4 * MedianGap(chars)
               /\ Free(chars, i)
            THEN ClampedSpacers(GapOfPair(chars, i), call_args.font_size) ELSE 0
    IN  (call_pc \in {"rebuilt", "returned"} /\ call_args.is_letter_spaced) =>
            IF GapPairs(chars) = {} THEN call_result.text = <<>>
            ELSE call_result.text =
                    Woven(chars, 1, NBSP_TOKEN, [i \in 1..(Len(chars) - 1) |-> Spacers(i)])
\* the glyphs that the step of a line appends
NewGlyphs ==
    SubSeq(extractable_glyphs', Len(extractable_glyphs) + 1, Len(extractable_glyphs'))
\* the line the step processes builds its text from the lines fused into it
TextFromLineGroups(line) ==
    /\ line.line_groups # Nil /\ line.line_groups # <<>>
    /\ MergeKind(line.spans) = "chars"
\* the spacers between the lines fused into a line: before each line with
\* usable characters that lies more than max(font_size * 0.6, 3.0) right of
\* the last such line with a bbox, round(gap / space width * 2.2) clamped to
\* 6..20 (ClampedSpacers when no space character has a width), and at most 3
\* when the gap exceeds font_size * 2
GroupSpacers(line) ==
    LET groups == line.line_groups
        font_size == line.spans[1].size
        usable == {i \in 1..Len(groups) : UsableChars(CharsOfSpans(groups[i].spans)) # <<>>}
        spaces == SelectSeq(CharsOfSpans(SpansOfLines(groups)),
                            LAMBDA ch : ch.c = " " /\ ch.bbox # Nil)
        widths == [i \in 1..Len(spaces) |-> spaces[i].bbox[3] - spaces[i].bbox[1]]
        Before(i) == {j \in usable : j < i /\ groups[j].bbox # Nil}
        Spacers(gap) ==
            LET count == IF widths # <<>> /\ MiddleOf(widths) > 0
                         THEN Max(6, Min(20, RoundHalfEven(22 * gap, 10 * MiddleOf(widths))))
                         ELSE ClampedSpacers(gap, font_size)
            IN  IF ~(10 * gap > 6 * font_size /\ gap > 300) THEN 0
                ELSE IF gap > 2 * font_size THEN Min(count, 3) ELSE count
        Count(i) ==
            IF i \notin usable \/ Before(i) = {} \/ groups[i].bbox = Nil THEN 0
            ELSE Spacers(groups[i].bbox[1] - groups[SetMax(Before(i))].bbox[3])
    IN  SelectSeq([i \in 1..Len(groups) |-> Count(i)], LAMBDA n : n > 0)

\* C24 as stated: every spacer put into a text is a run of round(gap / unit)
\* units clamped to 2..6, put only where the gap exceeds
\* max(font_size * 0.6, median * 4) and the next character is not
\* whitespace: in the letter-spaced path of _rebuild_text_with_spacing, and
\* in the text of every span that extraction emits, where no run of spacers
\* is shorter than 2 or longer than 6.
C24_SpacersClampedWhereNoWhitespaceFollows ==
    /\ [](SpacersInWideGaps(LAMBDA chars, i : chars[i + 1].c \notin {" ", "\t"}))
    /\ [][e_line' = e_line + 1 =>
              \A k \in 1..Len(NewGlyphs) :
                  LET runs == SpacerRuns(NewGlyphs[k].text, 0)
                  IN  \A r \in 1..Len(runs) : runs[r] >= 2 /\ runs[r] <= 6]_vars

\* C24: the letter-spaced path of _rebuild_text_with_spacing puts
\* round(gap / unit) spacers, clamped to 2..6, exactly where the gap exceeds
\* max(font_size * 0.6, median * 4) and the next character is not the space
\* character; extraction never takes that path, and the spacers of the spans
\* it emits are those between the lines fused into one line, which follow
\* the rule of GroupSpacers.
C24_SpacersOfLetterSpacedPathAndOfFusedLines ==
    /\ [](SpacersInWideGaps(LAMBDA chars, i : chars[i + 1].c # " "))
    /\ [][e_line' = e_line + 1 =>
              \A k \in 1..Len(NewGlyphs) :
                  SpacerRuns(NewGlyphs[k].text, 0) =
                      IF TextFromLineGroups(e_lines[e_line'])
                      THEN GroupSpacers(e_lines[e_line']) ELSE <<>>]_vars

\* a span was emitted for two fused lines whose text holds a run of more
\* than 6 spacers
C24_Witness ==
    /\ e_pc = "lines" /\ e_line > 0
    /\ TextFromLineGroups(e_lines[e_line])
    /\ extractable_glyphs # <<>>
    /\ LET runs == SpacerRuns(extractable_glyphs[Len(extractable_glyphs)].text, 0)
       IN  runs # <<>> /\ runs = GroupSpacers(e_lines[e_line]) /\ runs[1] > 6

(***************************************************************************)
(* Claims about extract_extractable_glyphs.                                *)
(***************************************************************************)
\* the lines of the text block of the page
PageLines == e_blocks[Len(e_blocks)].lines

\* the block holds one line only, the five letters of "word" at 12 pt as
\* single-character tokens: set apart by space characters in one span, or as
\* five text spans 6 pt apart
IsFiveLetterLine(word) ==
    \/ PageLines = <<CharLine(word, 27000, 10000, 11200)>>
    \/ PageLines = <<RawLine(<<27000, 10000, 32400, 11200>>,
                             LetterSpans(word, 27000, 600, TRUE))>>

\* exactly one span came out, its tokens the letters of "word" and the three
\* flags equal to "flag"
OneSpanOfLetters(word, flag) ==
    /\ Len(extractable_glyphs) = 1
    /\ Split(Normalized(extractable_glyphs[1].text)) = [i \in 1..Len(word) |-> <<word[i]>>]
    /\ extractable_glyphs[1].force_uppercase = flag
    /\ extractable_glyphs[1].apply_small_caps = flag
    /\ SpanCapsFlags(extractable_glyphs[1].text).is_letter_spaced = flag
SpacingUnset ==
    /\ extractable_glyphs[1].letter_spacing = Nil
    /\ extractable_glyphs[1].word_spacing = Nil

\* C5 as stated: a block whose only line is the five single-character tokens
\* "H","E","L","L","O" at 12 pt yields exactly one merged span with
\* force_uppercase = apply_small_caps = is_letter_spaced = true and no
\* letter_spacing or word_spacing.
C5_HelloIsLetterSpaced ==
    (e_pc = "done" /\ IsFiveLetterLine(UpperHello)) =>
        (OneSpanOfLetters(UpperHello, TRUE) /\ SpacingUnset)

\* C5 (amended): a block whose only line is the five single-character tokens
\* "h","e","l","l","o" at 12 pt, separated by whitespace, yields exactly one
\* merged span with the three flags true and no letter_spacing or
\* word_spacing; for the capitals "H","E","L","L","O" it yields one merged span
\* with the three flags false (its spacing is then measured from the gaps);
\* and five one-character spans that are not separated by whitespace yield the
\* one-token span "hello" with the flags false.
C5_LowercaseHelloIsLetterSpaced ==
    e_pc = "done" =>
        /\ IsFiveLetterLine(LowerHello) =>
              (OneSpanOfLetters(LowerHello, TRUE) /\ SpacingUnset)
        /\ IsFiveLetterLine(UpperHello) => OneSpanOfLetters(UpperHello, FALSE)
        /\ PageLines = <<RawLine(<<27000, 10000, 32400, 11200>>,
                                 LetterSpans(LowerHello, 27000, 600, FALSE))>>
           => /\ Len(extractable_glyphs) = 1
              /\ extractable_glyphs[1].text = LowerHello
              /\ ~extractable_glyphs[1].force_uppercase
              /\ ~extractable_glyphs[1].apply_small_caps

\* the lowercase line went through and came out as one letter-spaced span
C5_Witness ==
    /\ e_pc = "done"
    /\ IsFiveLetterLine(LowerHello)
    /\ extractable_glyphs[1].chars # Nil
    /\ OneSpanOfLetters(LowerHello, TRUE)
    /\ SpacingUnset

\* C10: every span emitted by extract_extractable_glyphs has a bbox, and the
\* bbox has x1 > x0 and y1 > y0.
C10_EmittedBBoxNonDegenerate ==
    \A i \in 1..Len(extractable_glyphs) :
        /\ extractable_glyphs[i].bbox # Nil
        /\ extractable_glyphs[i].bbox[3] > extractable_glyphs[i].bbox[1]
        /\ extractable_glyphs[i].bbox[4] > extractable_glyphs[i].bbox[2]

\* the gaps (distances that are not negative) between neighbours that both
\* carry a bbox: next to a space character, or between two other characters
SampledGaps(chars, by_space) ==
    LET at == {i \in 1..(Len(chars) - 1) :
                  /\ chars[i].bbox # Nil /\ chars[i + 1].bbox # Nil
                  /\ chars[i + 1].bbox[1] - chars[i].bbox[3] >= 0
                  /\ by_space = (chars[i].c = " " \/ chars[i + 1].c = " ")}
        RECURSIVE From(_)
        From(i) == IF i >= Len(chars) THEN <<>>
                   ELSE (IF i \in at THEN <<chars[i + 1].bbox[1] - chars[i].bbox[3]>>
                         ELSE <<>>) \o From(i + 1)
    IN  From(1)
\* the spacing fields of the call follow the rule, the gaps that stand in for
\* the word gap being the letter gaps "Large" admits
SpacingFromMedians(Large(_, _, _)) ==
    LET chars == call_args.chars
        letter_gaps == SampledGaps(chars, FALSE)
        space_gaps == SampledGaps(chars, TRUE)
        letter_gap == IF letter_gaps = <<>> THEN 0 ELSE MiddleOf(letter_gaps)
        large_gaps == SelectSeq(letter_gaps,
                                LAMBDA g : Large(g, letter_gap, call_args.font_size))
        letter_spacing == call_result[1]
        word_spacing == call_result[2]
    IN  /\ letter_spacing # Nil =>
              /\ letter_gaps # <<>>
              /\ letter_spacing[1] = letter_gap
              /\ letter_spacing[1] > 10
        /\ word_spacing # Nil =>
              /\ word_spacing[1] > 10
              /\ IF space_gaps # <<>>
                 THEN word_spacing[1] = MiddleOf(space_gaps) - letter_gap
                 ELSE /\ large_gaps # <<>>
                      /\ word_spacing[1] = MiddleOf(large_gaps) - letter_gap
        /\ (Len(chars) < 2 \/ (letter_gaps = <<>> /\ space_gaps = <<>>)
                \/ call_args.is_letter_spaced)
              => (letter_spacing = Nil /\ word_spacing = Nil)
IsSpacingCall == call_pc = "returned" /\ call_args.fn = "_compute_span_spacing"

\* C11 as stated: letter_spacing, when set, is the median of the gaps between
\* adjacent non-space characters and exceeds 0.1; word_spacing, when set,
\* exceeds 0.1 and is the excess over the letter gap of the median
\* space-adjacent gap or, without space-adjacent gaps, of the median of the
\* gaps larger than 3 x the letter gap; both are unset for fewer than 2
\* characters, without a gap sample, and for a letter-spaced span.
C11_SpacingFromMedianSample ==
    IsSpacingCall => SpacingFromMedians(LAMBDA g, letter_gap, font_size : g > 3 * letter_gap)

\* C11 (amended): as above, the gaps that stand in for the word gap being
\* those larger than max(3 x the letter gap, 0.4 x font_size).
C11_SpacingFromMedianOfLargeGaps ==
    IsSpacingCall =>
        SpacingFromMedians(LAMBDA g, letter_gap, font_size :
                              g > 3 * letter_gap /\ 10 * g > 4 * font_size)

\* a call that set both fields, the word spacing from the large letter gaps,
\* one letter gap lying between 3 x the letter gap and 0.4 x font_size
C11_Witness ==
    /\ IsSpacingCall
    /\ call_result[1] # Nil /\ call_result[2] # Nil
    /\ SampledGaps(call_args.chars, TRUE) = <<>>
    /\ \E i \in 1..(Len(call_args.chars) - 1) :
          LET gap == call_args.chars[i + 1].bbox[1] - call_args.chars[i].bbox[3]
          IN  gap > 3 * call_result[1][1] /\ 10 * gap <= 4 * call_args.font_size

(***************************************************************************)
(* Claims about _is_title_line.                                            *)
(***************************************************************************)
IsTitleCall == call_pc = "returned" /\ call_args.fn = "_is_title_line"
\* the text of the line: the characters, or else the text, of each span that
\* has any, joined by single spaces, spacer tokens read as spaces
TitleLineText ==
    LET spans == call_args.line.spans
        part == [i \in 1..Len(spans) |->
                    IF spans[i].chars # Nil /\ spans[i].chars # <<>>
                    THEN [k \in 1..Len(spans[i].chars) |-> spans[i].chars[k].c]
                    ELSE spans[i].text]
    IN  Normalized(Join(SelectSeq(part, LAMBDA t : t # <<>>), <<" ">>))
\* at least 70% of the tokens of the line are single characters of "alphabet"
MostlySingle(alphabet) ==
    LET tokens == Split(TitleLineText)
    IN  10 * Cardinality({i \in 1..Len(tokens) :
                             Len(tokens[i]) = 1 /\ tokens[i][1] \in alphabet})
            >= 7 * Len(tokens)
\* the line without its whitespace is roman letters followed by a period
IsRomanMarker ==
    LET s == SelectSeq(TitleLineText, LAMBDA ch : ~IsSpace(ch))
    IN  /\ Len(s) >= 2
        /\ s[Len(s)] = "."
        /\ \A i \in 1..(Len(s) - 1) :
              s[i] \in {"i", "v", "x", "l", "c", "d", "m", "I", "V", "X", "L", "C", "D", "M"}

\* C18 as stated: a line is a title candidate if and only if it has at least
\* 2 tokens and either at least 70% of its tokens are single alphabetic
\* characters or the line without whitespace matches the roman-numeral
\* marker pattern.
C18_TitleIffTwoTokensAndLettersOrRoman ==
    IsTitleCall =>
        (call_result <=>
            /\ Len(Split(TitleLineText)) >= 2
            /\ \/ MostlySingle(UpperLetters \cup LowerLetters \cup {"U00E9"})
               \/ IsRomanMarker)

\* C18 (amended): a line is a title candidate if and only if it has at least
\* 2 tokens of which at least 70% are single ASCII letters, or the line
\* without whitespace matches the roman-numeral marker pattern, whatever the
\* number of its tokens.
C18_TitleIffSpacedLettersOrRoman ==
    IsTitleCall =>
        (call_result <=>
            \/ Len(Split(TitleLineText)) >= 2 /\ MostlySingle(UpperLetters \cup LowerLetters)
            \/ IsRomanMarker)

\* a line of one token, a roman marker, is classified as a title candidate
C18_Witness ==
    /\ IsTitleCall
    /\ call_result
    /\ Len(Split(TitleLineText)) = 1
    /\ IsRomanMarker

(***************************************************************************)
(* Claims about _is_dropcap_candidate.                                     *)
(***************************************************************************)
IsDropcapCall == call_pc = "returned" /\ call_args.fn = "_is_dropcap_candidate"
\* the number of characters of a text that are not whitespace, spacer tokens
\* read as spaces
VisibleCount(text) ==
    Cardinality({i \in 1..Len(Normalized(text)) : ~IsSpace(Normalized(text)[i])})
ArgBoxWidth == IF call_args.bbox = Nil THEN 0 ELSE call_args.bbox[3] - call_args.bbox[1]
ArgBoxHeight == IF call_args.bbox = Nil THEN 0 ELSE call_args.bbox[4] - call_args.bbox[2]
\* font_size >= 2.4 x median; aspect ratio in [0.6, 1.4] or a decorative font
\* name; height >= 2.0 x median
DropcapSizeAndShape ==
    /\ 10 * call_args.font_size >= 24 * call_args.median_font_size
    /\ \/ /\ ArgBoxHeight > 0
          /\ 6 * ArgBoxHeight <= 10 * ArgBoxWidth
          /\ 10 * ArgBoxWidth <= 14 * ArgBoxHeight
       \/ call_args.font_name = <<"DropCaps">>
    /\ ArgBoxHeight >= 2 * call_args.median_font_size

\* C19 as stated: for a single-character span, _is_dropcap_candidate returns
\* true if and only if font_size >= 2.4 x median, the aspect ratio is in
\* [0.6, 1.4] or the font name carries a decorative hint, the bbox height is
\* >= 2.0 x median, and the left edge is within 0.5 x median of the block's
\* left edge, on either side.
C19_DropcapIffFourConditions ==
    (IsDropcapCall /\ VisibleCount(call_args.text) = 1) =>
        (call_result <=>
            /\ DropcapSizeAndShape
            /\ call_args.bbox # Nil /\ call_args.block_bbox # Nil
            /\ 2 * Abs(call_args.bbox[1] - call_args.block_bbox[1])
                  <= call_args.median_font_size)

\* C19 (amended): for a single-character span, _is_dropcap_candidate returns
\* true if and only if the median is not zero, the bbox is present with
\* positive width and height, font_size >= 2.4 x median, the aspect ratio is
\* in [0.6, 1.4] or the font name carries a decorative hint, the bbox height
\* is >= 2.0 x median, and the block has no bbox or the left edge is at most
\* 0.5 x median to the right of the block's left edge.
C19_DropcapIffWellFormedAndNotRightOfEdge ==
    (IsDropcapCall /\ VisibleCount(call_args.text) = 1) =>
        (call_result <=>
            /\ call_args.median_font_size # 0
            /\ ArgBoxWidth > 0 /\ ArgBoxHeight > 0
            /\ DropcapSizeAndShape
            /\ \/ call_args.block_bbox = Nil
               \/ 2 * call_args.bbox[1]
                     <= 2 * call_args.block_bbox[1] + call_args.median_font_size)

\* a single character 10 pt to the left of the block, at a median of 12 pt,
\* is classified as a dropcap candidate
C19_Witness ==
    /\ IsDropcapCall
    /\ call_result
    /\ VisibleCount(call_args.text) = 1
    /\ call_args.block_bbox # Nil
    /\ 2 * (call_args.block_bbox[1] - call_args.bbox[1]) > call_args.median_font_size

\* C12: in every span emitted by extract_extractable_glyphs,
\* dropcap_candidate = true implies that the span text, spacer tokens turned
\* into spaces and surrounding whitespace stripped, is exactly one visible
\* character.
C12_DropcapIsOneVisibleCharacter ==
    \A i \in 1..Len(extractable_glyphs) :
        extractable_glyphs[i].dropcap_candidate =>
            /\ VisibleCount(extractable_glyphs[i].text) = 1
            /\ Len(Strip(Normalized(extractable_glyphs[i].text))) = 1

\* a page went through and a dropcap candidate was emitted
C12_Witness ==
    /\ e_pc = "done"
    /\ \E i \in 1..Len(extractable_glyphs) : extractable_glyphs[i].dropcap_candidate

\* C13: a page input in which some record lacks an expected field (bbox or
\* text) raises no error in extract_extractable_glyphs; only the affected
\* item is skipped.
C13_GapsRaiseNoError == e_pc # "raised"

\* a line with a span that has a text and no bbox was extracted
C13_Reached ==
    /\ e_pc = "raised"
    /\ \E i \in 1..Len(e_lines[e_line].spans) :
          /\ e_lines[e_line].spans[i].bbox = Nil
          /\ e_lines[e_line].spans[i].text # Nil

\* The step that processes one line, the line and the spans it appended.
IsLineStep == e_pc = "lines" /\ e_line' = e_line + 1
StepLine == e_lines[e_line']
StepEmitted == SubSeq(extractable_glyphs', Len(extractable_glyphs) + 1,
                      Len(extractable_glyphs'))
HasChars(span) == span.chars # Nil /\ span.chars # <<>>
\* same normalized font name and colour, sizes within 0.2, and all spans
\* with characters or all spans with a non-blank text
MergeEligible(spans) ==
    /\ spans # <<>>
    /\ \A i, j \in 1..Len(spans) :
          /\ spans[i].font[Len(spans[i].font)] = spans[j].font[Len(spans[j].font)]
          /\ spans[i].color = spans[j].color
          /\ spans[i].size - spans[j].size <= 20
    /\ \/ \A i \in 1..Len(spans) : HasChars(spans[i])
       \/ \A i \in 1..Len(spans) :
             spans[i].text # Nil /\ \E k \in 1..Len(spans[i].text) : ~IsSpace(spans[i].text[k])
\* the spans of the line that are not blank: by their text or, without a
\* text, by their characters
NonBlankSpans(spans) ==
    SelectSeq(spans,
              LAMBDA span :
                 IF span.text # Nil /\ span.text # <<>>
                 THEN \E k \in 1..Len(span.text) : ~IsSpace(span.text[k])
                 ELSE HasChars(span) /\ \E k \in 1..Len(span.chars) : ~IsSpace(span.chars[k].c))
\* one output span for each of the spans, in order, with its bbox and size
OneSpanEach(spans, emitted) ==
    /\ Len(emitted) = Len(spans)
    /\ \A k \in 1..Len(spans) :
          emitted[k].bbox = spans[k].bbox /\ emitted[k].font_size = spans[k].size

\* C20 as stated: the spans of a line are merged into a single output span
\* if and only if the normalized font name and the colour are identical
\* across all spans, the sizes differ by at most 0.2, and either all spans
\* expose characters or all have a non-blank text; otherwise each non-blank
\* input span yields its own output span.
C20_MergedIffEligible ==
    [][IsLineStep =>
          IF MergeEligible(StepLine.spans)
          THEN e_pc' = "lines" /\ Len(StepEmitted) = 1
          ELSE e_pc' = "lines" /\ OneSpanEach(NonBlankSpans(StepLine.spans), StepEmitted)]_vars

\* C20 (amended): a line whose spans are eligible yields at most one output
\* span: one if the spans are merged by their texts, or if one of their
\* characters with a c and a bbox is not whitespace; none if no character
\* has a c and a bbox.  A line that is not eligible yields one output span
\* for each non-blank input span, unless one of these has no bbox: then the
\* extraction raises and returns nothing.
C20_MergedWhenEligibleAndNotBlank ==
    [][IsLineStep =>
          LET spans == StepLine.spans
              usable == UsableChars(CharsOfSpans(spans))
          IN  IF MergeEligible(spans)
              THEN /\ e_pc' = "lines"
                   /\ Len(StepEmitted) <= 1
                   /\ (\E i \in 1..Len(spans) : ~HasChars(spans[i])) => Len(StepEmitted) = 1
                   /\ (\A i \in 1..Len(spans) : HasChars(spans[i])) =>
                         /\ (\E k \in 1..Len(usable) : ~IsSpace(usable[k].c))
                               => Len(StepEmitted) = 1
                         /\ (\A k \in 1..Len(usable) : IsSpace(usable[k].c))
                               => StepEmitted = <<>>
              ELSE IF \A k \in 1..Len(NonBlankSpans(spans)) :
                         NonBlankSpans(spans)[k].bbox # Nil
              THEN e_pc' = "lines" /\ OneSpanEach(NonBlankSpans(spans), StepEmitted)
              ELSE e_pc' = "raised" /\ StepEmitted = <<>>]_vars

\* a line of two spans that differ in size was extracted into two spans, and
\* a line of five one-character spans into one
C20_Witness ==
    /\ e_pc = "done"
    /\ Len(e_lines) = 2
    /\ Len(e_lines[1].spans) = 2 /\ ~MergeEligible(e_lines[1].spans)
    /\ Len(e_lines[2].spans) = 5 /\ MergeEligible(e_lines[2].spans)
    /\ Len(extractable_glyphs) = 3

(***************************************************************************)
(* Claims about convert.                                                   *)
(***************************************************************************)
\* page i of the document
PageAt(i) == c_doc.pages[i]

\* what the stages give for a page taken alone, at this dpi
SpansAlone(page) == ExtractExtractableGlyphs(page.blocks, PageWidth).glyphs
BackgroundAlone(page) == RenderBackgroundWithoutGlyphs(page.raster, r_dpi, SpansAlone(page))
PageAlone(page) ==
    LET spans == SpansAlone(page)
        background == RenderBackgroundWithoutGlyphs(page.raster, r_dpi, spans)
        filtered == [k \in 1..Len(background.filtered) |-> spans[background.filtered[k]]]
    IN  [spans |-> spans, bg |-> background.bg, filtered |-> background.filtered,
         text |-> GenerateTextLayer(filtered).html]

\* the family names the spans of a page are set in, normalized
FamiliesOf(page) ==
    LET spans == SpansOfLines(page.blocks[1].lines)
    IN  {NormalizeFontName(spans[s].font) : s \in 1..Len(spans)}

\* C14: whatever the collaborators give for a font, _generate_font_face_css
\* returns: no call of it ends convert.  What it returns is the empty
\* declaration or a declaration of the font under its own name.  Every font
\* of the document has been handled when the pages begin, a run that ends
\* without a page failure has put out every page, and every span handed to
\* the text layer has its nodes, each with the normalized family name of the
\* span and a generic fallback family.
C14_FontFailureNeverBlocksPages ==
    /\ \A i \in 1..Len(c_log) : c_log[i].stage = "font" => c_log[i].ok
    /\ \A i \in 1..Len(fonts_css) :
          /\ fonts_css[i].font_name = c_doc.fonts[i]
          /\ \/ fonts_css[i].css = Nil
             \/ /\ fonts_css[i].css[1].families[1] = c_doc.fonts[i]
                /\ NormalizeFontName(c_doc.fonts[i])
                      = fonts_css[i].css[1].families[Len(fonts_css[i].css[1].families)]
    /\ c_pc \in {"extract", "erase", "text", "done"} => Len(fonts_css) = Len(c_doc.fonts)
    /\ c_pc = "done" => Len(output_file[1].pages) = Len(c_doc.pages)
    /\ (c_pc \in {"extract", "done"} /\ page_num >= 1) =>
          /\ \A k \in 1..Len(t_glyphs) : \E n \in 1..Len(text_html) : text_html[n].span = k
          /\ \A n \in 1..Len(text_html) :
                /\ text_html[n].node.font_family = t_glyphs[text_html[n].span].font_name
                /\ text_html[n].node.font_family \in FamiliesOf(PageAt(page_num))
                /\ text_html[n].node.fallback \in {"serif", "sans-serif"}

\* a run is complete in which the font of the text got the empty
\* declaration, and the last page has its text nodes in that font
C14_Witness ==
    /\ c_pc = "done"
    /\ fonts_css # <<>>
    /\ fonts_css[1].css = Nil
    /\ output_file[1].fonts_css = <<>>
    /\ text_html # <<>>
    /\ text_html[1].node.font_family = NormalizeFontName(fonts_css[1].font_name)

\* C15: the tracker list is empty when the glyph loop of generate_text_layer
\* starts, on every page; the container of every page completed, and the
\* spans, the background, the filtered list and the text nodes of the page
\* just completed, are those the page gives when it is taken alone.
C15_NoStateLeaksAcrossPages ==
    /\ (c_pc = "text" /\ t_pc = "emitting") => (line_trackers = <<>> /\ text_html = <<>>)
    /\ \A i \in 1..Len(html_parts) :
          LET alone == PageAlone(PageAt(i))
          IN  /\ html_parts[i] = [bg |-> alone.bg, text |-> alone.text]
              /\ (i = page_num /\ c_pc \in {"extract", "done"}) =>
                    /\ extractable_glyphs = alone.spans
                    /\ bg_image = alone.bg
                    /\ filtered_glyphs = alone.filtered
                    /\ text_html = alone.text

\* the second page is complete after a first page that left a tracker entry
\* on the line of its first run, which met an entry without a right edge
C15_Witness ==
    /\ c_pc = "done"
    /\ page_num = 2
    /\ html_parts[1].text # <<>>
    /\ html_parts[1] # html_parts[2]
    /\ t_calls # <<>>
    /\ t_calls[1].at = 1
    /\ t_calls[1].right_edge = Nil
    /\ t_glyphs[1].line_bbox[2] = PageAt(1).blocks[1].lines[2].bbox[2]

\* the stage calls on the pages, in the order they were made
PageCalls == SelectSeq(c_log, LAMBDA call : call.page >= 1)
Stages == <<"extract", "erase", "text">>
\* the position, among the lines processed for the page, of the line of a span
LineOf(page, span) ==
    LET lines_to_process == LinesToProcess(page.blocks[1].lines)
    IN  CHOOSE i \in 1..Len(lines_to_process) :
            /\ lines_to_process[i].bbox = span.line_bbox
            /\ \A j \in 1..(i - 1) : lines_to_process[j].bbox # span.line_bbox

\* C16: the stage calls are extract, erase, text of page 1, then of page 2, and
\* so on, each stage complete before the next starts; there is one page
\* container per completed page, the i-th with the background of page i,
\* and the output holds them all, one per page of the document; the text
\* nodes of a page are in the order of the filtered spans, which are in the
\* order in which their lines were extracted.
C16_PagesAndSpansInOrder ==
    /\ \A j \in 1..Len(PageCalls) :
          /\ PageCalls[j].page = ((j - 1) \div 3) + 1
          /\ PageCalls[j].stage = Stages[((j - 1) % 3) + 1]
          /\ j < Len(PageCalls) => PageCalls[j].ok
    /\ Len(html_parts) = page_num
    /\ \A i \in 1..Len(html_parts) : html_parts[i].bg = BackgroundAlone(PageAt(i)).bg
    /\ c_pc = "done" =>
          /\ Len(output_file[1].pages) = Len(c_doc.pages)
          /\ output_file[1].pages = html_parts
    /\ (c_pc \in {"extract", "done"} /\ page_num >= 1) =>
          /\ html_parts[page_num].text = text_html
          /\ \A m, n \in 1..Len(text_html) : m < n => text_html[m].span <= text_html[n].span
          /\ \A m, n \in 1..Len(filtered_glyphs) :
                m < n => filtered_glyphs[m] < filtered_glyphs[n]
          /\ \A k \in 1..Len(t_glyphs) : t_glyphs[k] = extractable_glyphs[filtered_glyphs[k]]
          /\ \A m, n \in 1..Len(extractable_glyphs) :
                m < n => LineOf(PageAt(page_num), extractable_glyphs[m])
                            <= LineOf(PageAt(page_num), extractable_glyphs[n])

\* two different pages are complete and written; the drop cap of the second
\* was left out of the filtered spans, and the text nodes are those of its
\* two body lines, top to bottom
C16_Witness ==
    /\ c_pc = "done"
    /\ page_num = 2
    /\ PageAt(1) # PageAt(2)
    /\ Len(output_file[1].pages) = 2
    /\ Len(extractable_glyphs) = 3
    /\ filtered_glyphs = <<2, 3>>
    /\ Len(text_html) = 2
    /\ text_html[1].node.top < text_html[2].node.top

\* C17: a stage call that raised is the last call made, convert has ended
\* with the error, and the output file is not written; no file is written
\* before every page is complete.
C17_PageFailureIsFatal ==
    /\ \A j \in 1..Len(c_log) :
          ~c_log[j].ok => (j = Len(c_log) /\ c_pc = "raised" /\ output_file = Nil)
    /\ c_pc = "raised" => (c_log # <<>> /\ ~c_log[Len(c_log)].ok /\ output_file = Nil)
    /\ output_file # Nil => (c_pc = "done" /\ page_num = Len(c_doc.pages))

\* the extraction of the second page raised after the first page was
\* complete: nothing is written
C17_Witness ==
    /\ c_pc = "raised"
    /\ page_num = 1
    /\ Len(html_parts) = 1
    /\ c_log[Len(c_log)] = [page |-> 2, stage |-> "extract", ok |-> FALSE]
    /\ output_file = Nil

(***************************************************************************)
(* Claims about the merging of the lines of a block.                       *)
(***************************************************************************)
\* the lines of the block entered, and whether lines_to_process is built
BlockLines == e_blocks[e_block].lines
BlockEntered == e_pc = "lines" /\ BlockLines # Nil

\* two lines have the same baseline key round(y0 / 0.5) * 0.5
SameBaseline(a, b) ==
    a.bbox # Nil /\ b.bbox # Nil /\ BaselineKey(a.bbox) = BaselineKey(b.bbox)
\* the pairs of positions of lines that "Fused" relates
PairsOf(lines, Fused(_, _)) ==
    {p \in (1..Len(lines)) \X (1..Len(lines)) : Fused(lines[p[1]], lines[p[2]])}
\* the pairs of positions of title candidates that have one baseline key
TitlePairsOnOneBaseline(lines) ==
    LET titles == {i \in 1..Len(lines) : IsTitleLine(lines[i])}
    IN  {p \in titles \X titles : SameBaseline(lines[p[1]], lines[p[2]])}

\* the positions fused with position i, i among them
FusedWith(n, i, fused) == {j \in 1..n : j = i \/ <<i, j>> \in fused}
\* the elements of a set of numbers in ascending order
Ascending(S) ==
    [k \in 1..Cardinality(S) |-> CHOOSE x \in S : Cardinality({y \in S : y < x}) = k - 1]
\* "out" is "lines" with every two lines fused whose positions are a pair of
\* "fused": one output line per set of fused lines, at the place of its first
\* member; a line fused with no other is the input line itself, a fused line
\* holds its members in line order
LinesFusedBy(lines, out, fused) ==
    LET firsts == Ascending({i \in 1..Len(lines) :
                                \A j \in FusedWith(Len(lines), i, fused) : i <= j})
    IN  /\ Len(out) = Len(firsts)
        /\ \A k \in 1..Len(firsts) :
              LET members == Ascending(FusedWith(Len(lines), firsts[k], fused))
              IN  IF Len(members) = 1 THEN out[k] = lines[firsts[k]]
                  ELSE out[k].line_groups = LinesAt(lines, members)

\* C21: in a block of more than 3 lines, two lines are fused if and only if
\* both are title candidates and have the same baseline key; every other
\* line passes through unchanged, and the output keeps the line order, a
\* fused line at the place of its first member.
C21_LongBlockFusesTitlesOnOneBaseline ==
    (BlockEntered /\ Len(BlockLines) > 3)
        => LinesFusedBy(BlockLines, e_lines, TitlePairsOnOneBaseline(BlockLines))

\* a block of 4 lines is entered in which two title lines of one baseline
\* are fused across a line that is not fused with them, and a title line
\* without bbox passes through
C21_Witness ==
    /\ BlockEntered
    /\ Len(BlockLines) > 3
    /\ \E i, j, l \in 1..Len(BlockLines) :
          /\ i < j /\ j < l
          /\ <<i, l>> \in TitlePairsOnOneBaseline(BlockLines)
          /\ ~IsTitleLine(BlockLines[j])
          /\ SameBaseline(BlockLines[i], BlockLines[j])
    /\ \E i \in 1..Len(BlockLines) :
          IsTitleLine(BlockLines[i]) /\ BlockLines[i].bbox = Nil
    /\ Len(e_lines) = 3

\* the bounding box of the bboxes of some lines
UnionBBox(group) ==
    <<SetMin({group[i].bbox[1] : i \in 1..Len(group)}),
      SetMin({group[i].bbox[2] : i \in 1..Len(group)}),
      SetMax({group[i].bbox[3] : i \in 1..Len(group)}),
      SetMax({group[i].bbox[4] : i \in 1..Len(group)})>>
\* every fused line of "out" has the union of the bboxes of its members and
\* their spans, one member after the other
FusedLinesWellFormed(out) ==
    \A k \in 1..Len(out) :
        out[k].line_groups # Nil =>
            /\ out[k].bbox = UnionBBox(out[k].line_groups)
            /\ out[k].spans = SpansOfLines(out[k].line_groups)

\* C30: in a block of at most 3 lines two lines are fused if and only if
\* they have the same baseline key; in every block each line gives its spans
\* to exactly one output line, none dropped and none taken twice; a fused
\* line has the union of the bboxes of its members and their spans in line
\* order.
C30_LinesPartitioned ==
    BlockEntered =>
        /\ IF Len(BlockLines) <= 3
           THEN LinesFusedBy(BlockLines, e_lines, PairsOf(BlockLines, SameBaseline))
           ELSE LinesFusedBy(BlockLines, e_lines, TitlePairsOnOneBaseline(BlockLines))
        /\ FusedLinesWellFormed(e_lines)

\* a block of at most 3 lines is entered, one of them without bbox, and
\* lines_to_process has fewer lines than the block has baselines
C30_Reached ==
    /\ BlockEntered
    /\ Len(BlockLines) \in 1..3
    /\ \E i \in 1..Len(BlockLines) :
          /\ BlockLines[i].bbox = Nil
          /\ BlockLines[i].spans # <<>>
          /\ \A k \in 1..Len(e_lines) :
                /\ e_lines[k] # BlockLines[i]
                /\ e_lines[k].line_groups # Nil =>
                      \A m \in 1..Len(e_lines[k].line_groups) :
                          e_lines[k].line_groups[m] # BlockLines[i]

(***************************************************************************)
(* Claims about overlap resolution.                                        *)
(***************************************************************************)
CallScript(call) == TextScriptType(call.text)
OtherScripts(a, b) == IsScriptClass(a) /\ IsScriptClass(b) /\ a # b
IsShifted(call) == call.bbox # call.run_bbox
\* the run moved right and kept its size and its height on the page
MovedRight(call) ==
    /\ ShiftOf(call) > 0
    /\ call.bbox[3] - call.bbox[1] = call.run_bbox[3] - call.run_bbox[1]
    /\ call.bbox[2] = call.run_bbox[2] /\ call.bbox[4] = call.run_bbox[4]
\* the calls made while the run now emitted was processed
NewCalls == (Len(t_calls) + 1)..Len(t_calls')

\* C22 as stated: a run's bbox changes only when the run is not centered and
\* starts at or before the right edge of a preceding run of the other script
\* class on its visual line, and then it moves right; mixed and unclassified
\* runs are never shifted; a centered run is returned as it is and leaves
\* the trackers as they are.  The right edge of a run is taken as far right
\* as the tracker records it.
C22_ShiftOnlyPastRunOfOtherScript ==
    \A k \in 1..Len(t_calls) :
        LET call == t_calls[k]
        IN  /\ IsShifted(call) =>
                  /\ ~call.centered
                  /\ \E j \in EarlierOnLine(k) :
                        /\ OtherScripts(CallScript(call), CallScript(t_calls[j]))
                        /\ call.run_bbox[1] <= OccupiedRight(t_calls[j])
                  /\ MovedRight(call)
            /\ ~IsScriptClass(CallScript(call)) => ~IsShifted(call)
            /\ call.centered => ~IsShifted(call) /\ call.at = 0

\* the script class last recorded on the line before call k: that of the
\* latest earlier run there that has one ("mixed" included)
LastRecordedScript(k) ==
    LET typed == {j \in EarlierOnLine(k) : CallScript(t_calls[j]) # None}
    IN  IF typed = {} THEN None ELSE CallScript(t_calls[SetMax(typed)])
\* the right edge recorded on the line before call k is the farthest right
\* any earlier run there reaches, whatever its script; an edge of exactly 0
\* is taken for no edge when the next run is recorded
EdgeIsFarthestReach(k) ==
    LET reaches == {OccupiedRight(t_calls[j]) : j \in EarlierOnLine(k)}
    IN  /\ (reaches = {}) = (t_calls[k].right_edge = Nil)
        /\ (reaches # {} /\ 0 \notin reaches) => t_calls[k].right_edge = Some(SetMax(reaches))

\* the rule of the shift, for call k
ShiftRuleOfCall(k) ==
    LET call == t_calls[k]
    IN  /\ call.at # 0 => call.last_type = LastRecordedScript(k) /\ EdgeIsFarthestReach(k)
        /\ IsShifted(call) =>
              /\ ~call.centered
              /\ OtherScripts(CallScript(call), call.last_type)
              /\ call.right_edge # Nil
              /\ call.run_bbox[1] <= call.right_edge[1] + 10
              /\ MovedRight(call)
              /\ call.bbox[1] > call.right_edge[1]
        /\ ~IsScriptClass(CallScript(call)) => ~IsShifted(call)
        /\ (call.at # 0 /\ CallScript(call) = call.last_type) => ~IsShifted(call)
        /\ call.centered => ~IsShifted(call) /\ call.at = 0

\* C22 (amended): a run's bbox changes only when the run is not centered, is
\* ASCII or CJK, the script class last recorded on its visual line is the
\* other of the two, and it starts no more than 0.1 pt right of the right
\* edge recorded on the line, which is the farthest any earlier run of the
\* line reaches, whatever its script (as long as none reaches x = 0
\* exactly); the run then moves right past that edge, keeping its size.
\* Mixed and unclassified runs and runs of the class last recorded are never
\* shifted; a centered run is returned as it is and leaves every tracker
\* entry as it is.
C22_ShiftOnlyPastRecordedEdgeAfterOtherScript ==
    [][ /\ \A k \in NewCalls : ShiftRuleOfCall(k)'
        /\ (\E k \in NewCalls : t_calls'[k].centered) => line_trackers' = line_trackers
      ]_vars

\* an ASCII run that ends at x = 100 pt, a CJK run that starts 0.05 pt right
\* of it and is shifted, then a centered run on the line, which has a
\* tracker entry
C22_Witness ==
    /\ Len(t_calls) = 3
    /\ CallScript(t_calls[1]) = "ascii" /\ OccupiedRight(t_calls[1]) = 10000
    /\ CallScript(t_calls[2]) = "cjk" /\ t_calls[2].run_bbox[1] = 10005
    /\ t_calls[2].at = t_calls[1].at
    /\ IsShifted(t_calls[2])
    /\ t_calls[3].centered
    /\ line_trackers # <<>>

(***************************************************************************)
(* Claims about the nodes of a span.                                       *)
(***************************************************************************)
\* a step of the loop of generate_text_layer, the span it takes and the nodes
\* it appends
IsEmitStep == Len(t_glyphs') = Len(t_glyphs) + 1
EmittedGlyph == t_glyphs'[Len(t_glyphs')]
NewNodes == SubSeq(text_html', Len(text_html) + 1, Len(text_html'))
NewTexts == [k \in 1..Len(NewNodes) |-> NewNodes[k].node.text]
\* the characters of a span that have a non-empty char and a bbox
CharsWithGeometry(g) ==
    IF g.chars = Nil THEN <<>>
    ELSE SelectSeq(g.chars, LAMBDA ch : ch.c # "" /\ ch.bbox # Nil)
\* the text has a run of at least 2 consecutive spaces
HasSpaceRun(text) == \E i \in 1..(Len(text) - 1) : text[i] = " " /\ text[i + 1] = " "
\* the maximal stretches of a text between its runs of at least 2 spaces,
\* without the blank ones, in text order
RECURSIVE AfterSpaces(_)
AfterSpaces(rest) ==
    IF rest # <<>> /\ Head(rest) = " " THEN AfterSpaces(Tail(rest)) ELSE rest
RECURSIVE Stretches(_, _)
Stretches(rest, stretch) ==
    LET done == IF \E i \in 1..Len(stretch) : stretch[i] # " " THEN <<stretch>> ELSE <<>>
    IN  IF rest = <<>> THEN done
        ELSE IF Len(rest) >= 2 /\ rest[1] = " " /\ rest[2] = " "
        THEN done \o Stretches(AfterSpaces(rest), <<>>)
        ELSE Stretches(Tail(rest), Append(stretch, Head(rest)))

\* C26: for a span that retains per-character geometry the step appends
\* exactly one node per character that has a non-empty char and a bbox, in
\* character order, holding that character (a space as a spacer) at the
\* left and top of the character's bbox, and no node for the span as a
\* whole; for a span without such a character it appends one node with the
\* text of the span, or one node per stretch between runs of spaces.
C26_OneNodePerCharacterWithGeometry ==
    [][IsEmitStep =>
          LET own == CharsWithGeometry(EmittedGlyph)
          IN  /\ \A k \in 1..Len(NewNodes) : NewNodes[k].span = Len(t_glyphs')
              /\ IF own # <<>>
                 THEN /\ Len(NewNodes) = Len(own)
                      /\ \A k \in 1..Len(own) :
                            /\ NewTexts[k] = IF own[k].c = " " THEN NBSP_TOKEN
                                             ELSE <<own[k].c>>
                            /\ NewNodes[k].node.left = own[k].bbox[1]
                            /\ NewNodes[k].node.top = own[k].bbox[2]
                 ELSE \/ NewTexts = <<EmittedGlyph.text>>
                      \/ NewTexts = Stretches(EmittedGlyph.text, <<>>)]_vars

\* the last span has six characters, four of them with a char and a bbox,
\* and four nodes, spacers among them
C26_Witness ==
    /\ t_glyphs # <<>>
    /\ Len(t_glyphs[Len(t_glyphs)].chars) = 6
    /\ Len(CharsWithGeometry(t_glyphs[Len(t_glyphs)])) = 4
    /\ Cardinality({n \in 1..Len(text_html) : text_html[n].span = Len(t_glyphs)}) = 4
    /\ \E n \in 1..Len(text_html) :
          text_html[n].span = Len(t_glyphs) /\ text_html[n].node.text = NBSP_TOKEN

\* C27: a span whose text holds a CJK character and a run of at least 2
\* consecutive spaces is emitted as one node per maximal stretch of text
\* between such runs that is not blank, in text order, each node placed at
\* the bounding box of characters of the span.
C27_SplitAtRunsOfSpaces ==
    [][(IsEmitStep /\ ContainsCjk(EmittedGlyph.text) /\ HasSpaceRun(EmittedGlyph.text)) =>
          /\ NewTexts = Stretches(EmittedGlyph.text, <<>>)
          /\ \A k \in 1..Len(NewNodes) :
                /\ EmittedGlyph.chars # Nil
                /\ \E i \in 1..Len(EmittedGlyph.chars) :
                      /\ EmittedGlyph.chars[i].bbox # Nil
                      /\ NewNodes[k].node.left >= EmittedGlyph.chars[i].bbox[1]]_vars

\* the last span holds a CJK character and a run of 2 spaces and carries no
\* characters, and its only node holds its whole text
C27_Reached ==
    /\ t_glyphs # <<>>
    /\ LET g == t_glyphs[Len(t_glyphs)]
           nodes == {n \in 1..Len(text_html) : text_html[n].span = Len(t_glyphs)}
       IN  /\ ContainsCjk(g.text) /\ HasSpaceRun(g.text)
           /\ g.chars = Nil
           /\ Cardinality(nodes) = 1
           /\ \A n \in nodes : text_html[n].node.text = g.text

(***************************************************************************)
(* Claims about the LineTracker entries.                                   *)
(***************************************************************************)
\* C28: over the runs of one page the tracker entries are only added, their
\* center_y and tolerance never change, the right_edge of an entry never
\* decreases, and once a run is recorded the right_edge of its entry is at
\* least the run's left edge, shifted or not, plus the larger of its bbox
\* width and its estimated text width.
C28_TrackerEntriesOnlyGrow ==
    [][ /\ Len(line_trackers') >= Len(line_trackers)
        /\ \A i \in 1..Len(line_trackers) :
              /\ line_trackers'[i].center_y = line_trackers[i].center_y
              /\ line_trackers'[i].tolerance = line_trackers[i].tolerance
              /\ line_trackers[i].right_edge # Nil =>
                    /\ line_trackers'[i].right_edge # Nil
                    /\ line_trackers'[i].right_edge[1] >= line_trackers[i].right_edge[1]
        /\ \A k \in NewCalls :
              t_calls'[k].at # 0 =>
                  /\ line_trackers'[t_calls'[k].at].right_edge # Nil
                  /\ line_trackers'[t_calls'[k].at].right_edge[1] >= OccupiedRight(t_calls'[k])
      ]_vars

\* a run was recorded on an entry whose right_edge was 0, and the right_edge
\* of the entry is now left of 0
C28_Reached ==
    /\ t_calls # <<>>
    /\ LET call == t_calls[Len(t_calls)]
       IN  /\ call.at # 0
           /\ call.right_edge = Some(0)
           /\ line_trackers[call.at].right_edge[1] < 0
           /\ line_trackers[call.at].right_edge[1] = OccupiedRight(call)
====
